---- MODULE Spec2Model ----
(***************************************************************************)
(* Model of the plus package-repository server: the local and object-store *)
(* Storage backends, the RPM and Files Repo variants, the RepoService      *)
(* dispatch core with its name -> type memo and RWMutex, and the           *)
(* batch-upload handler of the HTTP API.                                   *)
(*                                                                         *)
(* Go strings are sequences of one-character strings, so that HasSuffix,   *)
(* ToLower, filepath.Join, filepath.Ext ... are computed, not assumed.     *)
(***************************************************************************)
EXTENDS Integers, Sequences, FiniteSets, TLC

VARIABLES
    lfs,          \* the host file system seen by LocalStorage: path segments -> node
    objs,         \* the mindb bucket of MinDBStorage: key -> object data
    repoTypes,    \* RepoService.repoTypes: repository name -> RepoType
    repoConfigs,  \* RepoService.repoConfigs: repository name -> string
    mu,           \* RepoService.mu, a sync.RWMutex
    th,           \* per goroutine: the service call it executes and its locals
    hist,         \* history of explicit calls per repository name (for stating claims)
    st,           \* state of the storage-level scenario (SpecLocal)
    batch         \* state of one API.BatchUpload request (SpecBatch)

vars == <<lfs, objs, repoTypes, repoConfigs, mu, th, hist, st, batch>>

-----------------------------------------------------------------------------
(* Go strings *)

Lower(c) ==
    CASE c = "A" -> "a" [] c = "B" -> "b" [] c = "C" -> "c" [] c = "D" -> "d"
      [] c = "E" -> "e" [] c = "F" -> "f" [] c = "G" -> "g" [] c = "H" -> "h"
      [] c = "I" -> "i" [] c = "J" -> "j" [] c = "K" -> "k" [] c = "L" -> "l"
      [] c = "M" -> "m" [] c = "N" -> "n" [] c = "O" -> "o" [] c = "P" -> "p"
      [] c = "Q" -> "q" [] c = "R" -> "r" [] c = "S" -> "s" [] c = "T" -> "t"
      [] c = "U" -> "u" [] c = "V" -> "v" [] c = "W" -> "w" [] c = "X" -> "x"
      [] c = "Y" -> "y" [] c = "Z" -> "z" [] OTHER -> c

ToLower(s) == [i \in 1..Len(s) |-> Lower(s[i])]

HasPrefix(s, p) == Len(s) >= Len(p) /\ SubSeq(s, 1, Len(p)) = p

HasSuffix(s, p) == Len(s) >= Len(p) /\ SubSeq(s, Len(s) - Len(p) + 1, Len(s)) = p

TrimPrefix(s, p) == IF HasPrefix(s, p) THEN SubSeq(s, Len(p) + 1, Len(s)) ELSE s

TrimSuffix(s, p) == IF HasSuffix(s, p) THEN SubSeq(s, 1, Len(s) - Len(p)) ELSE s

Count(s, c) == Cardinality({i \in 1..Len(s) : s[i] = c})

\* strings.Split(s, "/"): the pieces between the separators, one more than
\* there are separators
Split(s) ==
    LET cuts == {i \in 1..Len(s) : s[i] = "/"}
        n == Cardinality(cuts)
        cut == [k \in 0..(n + 1) |->
                  IF k = 0 THEN 0
                  ELSE IF k = n + 1 THEN Len(s) + 1
                  ELSE CHOOSE c \in cuts : Cardinality({d \in cuts : d < c}) = k - 1]
    IN  [k \in 1..(n + 1) |-> SubSeq(s, cut[k - 1] + 1, cut[k] - 1)]

\* strings.Join(segs, "/")
RECURSIVE JoinSegs(_)
JoinSegs(segs) ==
    IF segs = <<>> THEN <<>>
    ELSE IF Len(segs) = 1 THEN segs[1]
    ELSE segs[1] \o <<"/">> \o JoinSegs(Tail(segs))

Dot == <<".">>
DotDot == <<".", ".">>

\* the lexical component processing of filepath.Clean: drops empty and "."
\* components and resolves ".." against the component before it
RECURSIVE CleanSegs(_, _, _)
CleanSegs(segs, out, rooted) ==
    IF segs = <<>> THEN out
    ELSE LET h == Head(segs) IN
        IF h = <<>> \/ h = Dot THEN CleanSegs(Tail(segs), out, rooted)
        ELSE IF h = DotDot THEN
            IF out # <<>> /\ out[Len(out)] # DotDot
                THEN CleanSegs(Tail(segs), SubSeq(out, 1, Len(out) - 1), rooted)
            ELSE IF rooted THEN CleanSegs(Tail(segs), out, rooted)
            ELSE CleanSegs(Tail(segs), Append(out, h), rooted)
        ELSE CleanSegs(Tail(segs), Append(out, h), rooted)

IsAbs(p) == p # <<>> /\ p[1] = "/"

\* filepath.Clean
Clean(p) ==
    LET segs == CleanSegs(Split(p), <<>>, IsAbs(p)) IN
    IF IsAbs(p) THEN <<"/">> \o JoinSegs(segs)
    ELSE IF segs = <<>> THEN Dot
    ELSE JoinSegs(segs)

\* filepath.Join(a, b): empty elements are ignored, the result is cleaned
Join(a, b) ==
    IF a = <<>> /\ b = <<>> THEN <<>>
    ELSE IF a = <<>> THEN Clean(b)
    ELSE IF b = <<>> THEN Clean(a)
    ELSE Clean(a \o <<"/">> \o b)

Join3(a, b, c) ==
    LET parts == SelectSeq(<<a, b, c>>, LAMBDA x : x # <<>>) IN
    IF parts = <<>> THEN <<>> ELSE Clean(JoinSegs(parts))

\* index of the last occurrence of c in s, 0 when there is none
LastIndex(s, c) ==
    LET I == {i \in 1..Len(s) : s[i] = c} IN
    IF I = {} THEN 0 ELSE CHOOSE i \in I : \A j \in I : j <= i

\* filepath.Base
Base(p) ==
    IF p = <<>> THEN Dot
    ELSE LET q == IF Len(p) > 1 /\ p[Len(p)] = "/" THEN SubSeq(p, 1, Len(p) - 1) ELSE p
             k == LastIndex(q, "/")
         IN IF q = <<"/">> THEN q ELSE SubSeq(q, k + 1, Len(q))

\* filepath.Dir
Dir(p) ==
    LET k == LastIndex(p, "/") IN
    IF k = 0 THEN Dot ELSE Clean(SubSeq(p, 1, k))

\* filepath.Ext: the suffix beginning at the final dot of the final element
Ext(p) ==
    LET b == IF LastIndex(p, "/") = 0 THEN p ELSE SubSeq(p, LastIndex(p, "/") + 1, Len(p))
        k == LastIndex(b, ".")
    IN IF k = 0 THEN <<>> ELSE SubSeq(b, k, Len(b))

-----------------------------------------------------------------------------
(* The host file system under LocalStorage.                                *)
(* lfs maps an absolute path, as its sequence of components, to a node;    *)
(* the root directory <<>> is implicit.  A node is a directory, a regular  *)
(* file with its bytes, or a symbolic link with its (absolute) target.     *)

DirNode == [kind |-> "dir", data |-> <<>>, target |-> <<>>]
FileNode(d) == [kind |-> "file", data |-> d, target |-> <<>>]
LinkNode(t) == [kind |-> "link", data |-> <<>>, target |-> t]

\* info.ModTime(): the program compares the times of the metadata files that a
\* refresh writes and of nothing else, so only those nodes carry a time
ModTime(node) == IF "mtime" \in DOMAIN node THEN node.mtime ELSE 0

\* components of an absolute or relative path
Segs(p) == CleanSegs(Split(p), <<>>, TRUE)

\* the path string of a component sequence
PathOf(segs) == <<"/">> \o JoinSegs(segs)

IsSegPrefix(a, b) == Len(a) <= Len(b) /\ SubSeq(b, 1, Len(a)) = a

\* the kernel gives up after this many symbolic links in one resolution (ELOOP)
MaxSymlinks == 3

Found(path) == [ok |-> TRUE, path |-> path, err |-> ""]
Failed(e) == [ok |-> FALSE, path |-> <<>>, err |-> e]

\* path resolution of the OS: every symbolic link on the way is followed; the
\* final component is followed only when follow is set (stat vs lstat)
RECURSIVE Resolve(_, _, _, _, _)
Resolve(fs, cur, rest, follow, fuel) ==
    IF rest = <<>> THEN Found(cur)
    ELSE LET next == Append(cur, Head(rest))
             tl == Tail(rest)
         IN IF next \notin DOMAIN fs THEN Failed("ENOENT")
            ELSE IF fs[next].kind = "link" /\ (tl # <<>> \/ follow) THEN
                IF fuel = 0 THEN Failed("ELOOP")
                ELSE Resolve(fs, <<>>, Segs(fs[next].target) \o tl, follow, fuel - 1)
            ELSE IF fs[next].kind = "file" /\ tl # <<>> THEN Failed("ENOTDIR")
            ELSE Resolve(fs, next, tl, follow, fuel)

\* os.Stat: [ok, path (the real path), err]
Stat(fs, p) == Resolve(fs, <<>>, Segs(p), TRUE, MaxSymlinks)

\* os.Lstat
Lstat(fs, p) == Resolve(fs, <<>>, Segs(p), FALSE, MaxSymlinks)

\* filepath.EvalSymlinks resolves every link and fails when a component is missing
EvalSymlinks(fs, p) == Stat(fs, p)

KindAt(fs, segs) == IF segs = <<>> THEN "dir" ELSE fs[segs].kind

StatIsDir(fs, p) == Stat(fs, p).ok /\ KindAt(fs, Stat(fs, p).path) = "dir"

FsOk(fs) == [ok |-> TRUE, fs |-> fs, err |-> ""]
FsErr(fs, e) == [ok |-> FALSE, fs |-> fs, err |-> e]

\* os.MkdirAll: creates the missing directories of p; fails when a component
\* exists and is no directory (a dangling link included)
RECURSIVE MkdirAllFrom(_, _, _)
MkdirAllFrom(fs, cur, rest) ==
    IF rest = <<>> THEN FsOk(fs)
    ELSE LET next == Append(cur, Head(rest)) IN
        IF next \notin DOMAIN fs
            THEN MkdirAllFrom([x \in DOMAIN fs \cup {next} |->
                                  IF x = next THEN DirNode ELSE fs[x]], next, Tail(rest))
        ELSE IF fs[next].kind = "dir" THEN MkdirAllFrom(fs, next, Tail(rest))
        ELSE IF fs[next].kind = "file" THEN FsErr(fs, "ENOTDIR")
        ELSE LET r == Resolve(fs, <<>>, Segs(fs[next].target), TRUE, MaxSymlinks) IN
            IF ~r.ok THEN FsErr(fs, "EEXIST")
            ELSE IF KindAt(fs, r.path) # "dir" THEN FsErr(fs, "ENOTDIR")
            ELSE MkdirAllFrom(fs, r.path, Tail(rest))

MkdirAll(fs, p) == MkdirAllFrom(fs, <<>>, Segs(p))

\* os.Create followed by io.Copy: O_CREATE|O_TRUNC follows a link in the final
\* component, creates a missing file and replaces the bytes of an existing one
RECURSIVE CreateFile(_, _, _, _)
CreateFile(fs, p, data, fuel) ==
    LET segs == Segs(p)
        par == Resolve(fs, <<>>, SubSeq(segs, 1, Len(segs) - 1), TRUE, MaxSymlinks)
    IN  IF segs = <<>> THEN FsErr(fs, "EISDIR")
        ELSE IF ~par.ok THEN FsErr(fs, par.err)
        ELSE IF KindAt(fs, par.path) # "dir" THEN FsErr(fs, "ENOTDIR")
        ELSE LET final == Append(par.path, segs[Len(segs)]) IN
            IF final \notin DOMAIN fs
                THEN FsOk([x \in DOMAIN fs \cup {final} |->
                              IF x = final THEN FileNode(data) ELSE fs[x]])
            ELSE IF fs[final].kind = "file"
                THEN FsOk([fs EXCEPT ![final] = FileNode(data)])
            ELSE IF fs[final].kind = "dir" THEN FsErr(fs, "EISDIR")
            ELSE IF fuel = 0 THEN FsErr(fs, "ELOOP")
            ELSE CreateFile(fs, fs[final].target, data, fuel - 1)

\* os.RemoveAll: removes the path and everything below it; a link in the final
\* component is removed, not followed; a missing path is no error
RemoveAll(fs, p) ==
    LET segs == Segs(p)
        par == Resolve(fs, <<>>, SubSeq(segs, 1, Len(segs) - 1), TRUE, MaxSymlinks)
    IN  IF segs = <<>> THEN FsErr(fs, "EINVAL")
        ELSE IF ~par.ok THEN (IF par.err = "ENOENT" THEN FsOk(fs) ELSE FsErr(fs, par.err))
        ELSE IF KindAt(fs, par.path) # "dir" THEN FsErr(fs, "ENOTDIR")
        ELSE LET final == Append(par.path, segs[Len(segs)])
                 keep == {x \in DOMAIN fs : ~IsSegPrefix(final, x)}
             IN FsOk([x \in keep |-> fs[x]])

\* names of the entries of the directory at real path d
Children(fs, d) == {x \in DOMAIN fs : Len(x) = Len(d) + 1 /\ IsSegPrefix(d, x)}

\* every entry below the directory at real path d (WalkDir descends into
\* directories only, never through a link)
Descendants(fs, d) == {x \in DOMAIN fs : Len(x) > Len(d) /\ IsSegPrefix(d, x)}

-----------------------------------------------------------------------------
(* LocalStorage (pkg/storage/local) *)

\* LocalStorage.basePath, the --storage-path of the server
BasePath == <<"/", "s">>

Ext_rpm == <<".", "r", "p", "m">>
Ext_deb == <<".", "d", "e", "b">>
S_Packages == <<"P", "a", "c", "k", "a", "g", "e", "s">>
S_repodata == <<"r", "e", "p", "o", "d", "a", "t", "a">>
S_repomd == <<"r", "e", "p", "o", "m", "d", ".", "x", "m", "l">>
S_marker == <<".", "r", "e", "p", "o", "-", "t", "y", "p", "e">>
S_files == <<"f", "i", "l", "e", "s">>

\* storage.ListOptions
ListOptions(maxDepth, includeDirs, extensions) ==
    [MaxDepth |-> maxDepth, IncludeDirs |-> includeDirs, Extensions |-> extensions]

\* storage.FileInfo
FileInfo(name, size, isDir, isRepo, modTime) ==
    [Name |-> name, Size |-> size, IsDir |-> isDir, IsRepo |-> isRepo, ModTime |-> modTime]

IoOk(fs) == [ok |-> TRUE, fs |-> fs, err |-> ""]

LocalStore(fs, path, data) ==
    LET fullPath == Join(BasePath, path)
        d == MkdirAll(fs, Dir(fullPath))
    IN  IF ~d.ok THEN d ELSE CreateFile(d.fs, fullPath, data, MaxSymlinks)

\* os.Open: follows links; a directory opens too
Open(fs, p) ==
    LET r == Stat(fs, p) IN
    IF ~r.ok THEN [ok |-> FALSE, real |-> <<>>, isDir |-> FALSE, data |-> <<>>, err |-> r.err]
    ELSE [ok |-> TRUE, real |-> r.path, isDir |-> KindAt(fs, r.path) = "dir",
          data |-> IF r.path = <<>> THEN <<>> ELSE fs[r.path].data, err |-> ""]

LocalGet(fs, path) ==
    LET fullPath == Join(BasePath, path)
        file == Open(fs, fullPath)
        real == EvalSymlinks(fs, fullPath)
    IN  IF ~file.ok /\ real.ok THEN Open(fs, PathOf(real.path)) ELSE file

LocalDelete(fs, path) == RemoveAll(fs, Join(BasePath, path))

LocalCreateDir(fs, path) == MkdirAll(fs, Join(BasePath, path))

LocalGetPath(path) == Join(BasePath, path)

\* an existence test that does not follow the link
LocalExistsLstat(fs, path) ==
    [exists |-> Lstat(fs, Join(BasePath, path)).ok, err |-> ""]

LocalExists(fs, path) ==
    LET r == Stat(fs, Join(BasePath, path)) IN
    IF r.ok THEN [exists |-> TRUE, err |-> ""]
    ELSE IF r.err = "ENOENT" THEN [exists |-> FALSE, err |-> ""]
    ELSE [exists |-> FALSE, err |-> r.err]

\* filepath.Glob(dir/*.rpm): the entries of the directory whose name ends in .rpm
GlobRpm(fs, d) == {x \in Children(fs, d) : HasSuffix(x[Len(x)], Ext_rpm)}

LocalIsRepoDirectory(fs, dirPath) ==
    LET resolved == EvalSymlinks(fs, dirPath)
        realDirPath == IF resolved.ok THEN PathOf(resolved.path) ELSE dirPath
        packages == Stat(fs, Join(realDirPath, S_Packages))
    IN  \/ Stat(fs, Join3(realDirPath, S_repodata, S_repomd)).ok
        \/ Stat(fs, Join(realDirPath, S_repodata)).ok
        \/ /\ packages.ok
           /\ KindAt(fs, packages.path) = "dir"
           /\ GlobRpm(fs, packages.path) # {}

ExtAllowed(name, extensions) ==
    extensions = {} \/ \E a \in extensions : ToLower(Ext(name)) = ToLower(a)

\* the callback of filepath.WalkDir for the entry at real path x below root
LocalWalkEntry(fs, root, x, opts) ==
    LET relPath == JoinSegs(SubSeq(x, Len(root) + 1, Len(x)))
        isSymlink == fs[x].kind = "link"
        real == Resolve(fs, <<>>, x, TRUE, MaxSymlinks)
        at == IF isSymlink THEN real.path ELSE x
        dname == IF at = <<>> THEN <<"/">> ELSE at[Len(at)]
        depth == Count(relPath, "/")
    IN  IF isSymlink /\ ~real.ok THEN {}
        ELSE IF opts.MaxDepth >= 0 /\ depth > opts.MaxDepth THEN {}
        ELSE IF KindAt(fs, at) = "dir" THEN
            IF opts.IncludeDirs
                THEN {FileInfo(relPath, 0, TRUE, LocalIsRepoDirectory(fs, PathOf(x)), 0)}
                ELSE {}
        ELSE IF ~ExtAllowed(dname, opts.Extensions) THEN {}
        ELSE {FileInfo(relPath, Len(fs[at].data), FALSE, FALSE, ModTime(fs[at]))}

LocalListWithOptions(fs, prefix, opts) ==
    LET fullPath == Join(BasePath, prefix)
        root == Lstat(fs, fullPath)
    IN  IF ~Stat(fs, fullPath).ok /\ Stat(fs, fullPath).err = "ENOENT" THEN {}
        ELSE IF ~root.ok \/ KindAt(fs, root.path) # "dir" THEN {}
        ELSE UNION {LocalWalkEntry(fs, root.path, x, opts) : x \in Descendants(fs, root.path)}

-----------------------------------------------------------------------------
(* MinDBStorage (the object store behind the Files repo).  objs maps an     *)
(* object key to the object's bytes; a directory is a zero-byte object      *)
(* whose key ends in "/".                                                   *)

Slash == <<"/">>
S_dists == <<"d", "i", "s", "t", "s">>

\* mindb ListObjects(bucket, prefix, "", "", n): the keys that start with prefix
ListObjects(ob, prefix) == {k \in DOMAIN ob : HasPrefix(k, prefix)}

PutObject(ob, key, data) == [k \in DOMAIN ob \cup {key} |-> IF k = key THEN data ELSE ob[k]]

DeleteObjects(ob, keys) == [k \in DOMAIN ob \ keys |-> ob[k]]

normalizePath(path) == TrimPrefix(path, Slash)

WithSlash(path) == IF HasSuffix(path, Slash) THEN path ELSE path \o Slash

\* a Store that keeps the object a key already holds
MinDBStoreIfAbsent(ob, path, data) ==
    IF normalizePath(path) \in DOMAIN ob THEN ob ELSE PutObject(ob, normalizePath(path), data)

MinDBStore(ob, path, data) == PutObject(ob, normalizePath(path), data)

MinDBGet(ob, path) ==
    LET key == normalizePath(path) IN
    IF key \in DOMAIN ob THEN [ok |-> TRUE, data |-> ob[key]]
    ELSE [ok |-> FALSE, data |-> <<>>]

MinDBIsDirectory(ob, path) == ListObjects(ob, WithSlash(path)) # {}

MinDBDeleteDirectory(ob, dirPath) ==
    DeleteObjects(ob, ListObjects(ob, WithSlash(dirPath)) \cup {WithSlash(dirPath)})

MinDBCreateDir(ob, path) == PutObject(ob, WithSlash(normalizePath(path)), <<>>)

MinDBExists(ob, path) ==
    LET normalizedPath == normalizePath(path) IN
    \/ normalizedPath \in DOMAIN ob
    \/ ~HasSuffix(normalizedPath, Slash) /\ (normalizedPath \o Slash) \in DOMAIN ob
    \/ ListObjects(ob, normalizedPath) # {}

MinDBIsRepoDirectory(ob, path, isDir) ==
    /\ isDir
    /\ \/ MinDBExists(ob, WithSlash(path) \o S_marker)
       \/ \E indicator \in {S_Packages \o Slash, S_repodata \o Slash, S_dists \o Slash} :
             MinDBExists(ob, WithSlash(path) \o indicator)

\* strings.Trim(s, "/")
RECURSIVE TrimSlashes(_)
TrimSlashes(s) ==
    IF s = <<>> THEN s
    ELSE IF Head(s) = "/" THEN TrimSlashes(Tail(s))
    ELSE IF s[Len(s)] = "/" THEN TrimSlashes(SubSeq(s, 1, Len(s) - 1))
    ELSE s

shouldIncludeByDepth(path, prefix, maxDepth) ==
    LET relativePath == TrimSlashes(TrimPrefix(path, prefix)) IN
    \/ maxDepth = -1
    \/ relativePath # <<>> /\ Count(relativePath, "/") + 1 <= maxDepth

shouldIncludeFile(key, prefix, opts) ==
    /\ shouldIncludeByDepth(key, prefix, opts.MaxDepth)
    /\ ExtAllowed(key, opts.Extensions)

\* the entries one object key contributes to a listing
MinDBListEntry(ob, objKey, normalizedPrefix, opts) ==
    LET relativePath == TrimPrefix(objKey, normalizedPrefix)
        isDirectoryPlaceholder == HasSuffix(objKey, Slash) /\ Len(ob[objKey]) = 0
        dirName == TrimSuffix(relativePath, Slash)
        pathParts == Split(relativePath)
        parents == {JoinSegs(SubSeq(pathParts, 1, i)) : i \in 1..(Len(pathParts) - 1)}
    IN  IF relativePath = <<>> THEN {}
        ELSE IF isDirectoryPlaceholder THEN
            IF /\ opts.IncludeDirs
               /\ dirName # <<>>
               /\ shouldIncludeByDepth(objKey, normalizedPrefix, opts.MaxDepth)
                THEN {FileInfo(dirName, 0, TRUE, MinDBIsRepoDirectory(ob, objKey, TRUE), 0)}
                ELSE {}
        ELSE IF ~shouldIncludeFile(objKey, normalizedPrefix, opts) THEN {}
        ELSE {FileInfo(relativePath, Len(ob[objKey]), FALSE, FALSE, 0)}
             \cup (IF opts.IncludeDirs
                   THEN {FileInfo(d, 0, TRUE,
                                  MinDBIsRepoDirectory(ob, normalizedPrefix \o d \o Slash, TRUE), 0) :
                         d \in {q \in parents :
                                 /\ q # <<>>
                                 /\ shouldIncludeByDepth(normalizedPrefix \o q \o Slash,
                                                         normalizedPrefix, opts.MaxDepth)}}
                   ELSE {})

MinDBListWithOptions(ob, prefix, opts) ==
    LET np == normalizePath(prefix)
        normalizedPrefix == IF np # <<>> /\ ~HasSuffix(np, Slash) THEN np \o Slash ELSE np
    IN  UNION {MinDBListEntry(ob, k, normalizedPrefix, opts) : k \in ListObjects(ob, normalizedPrefix)}

\* MinDBStorage.Delete; DeleteObject of a key the bucket does not hold changes nothing
MinDBDelete(ob, path) ==
    LET normalizedPath == normalizePath(path) IN
    IF HasSuffix(normalizedPath, Slash) \/ MinDBIsDirectory(ob, normalizedPath)
        THEN MinDBDeleteDirectory(ob, normalizedPath)
        ELSE DeleteObjects(ob, {normalizedPath})

-----------------------------------------------------------------------------
(* The Repo variants.  RPMRepo owns a LocalStorage, FilesRepo a            *)
(* MinDBStorage; every operation maps the storage state to a result.       *)

\* repo.RepoType
RPM == <<"r", "p", "m">>
DEB == <<"d", "e", "b">>
Files == <<"f", "i", "l", "e", "s">>

RepoOk(store) == [ok |-> TRUE, store |-> store, err |-> "ok"]
RepoErr(store, e) == [ok |-> FALSE, store |-> store, err |-> e]

\* a variant of RPMRepo.UploadPackage that stores whatever it is given
RPMUploadAnyFile(fs, repoName, filename, data) ==
    LET r == LocalStore(fs, Join3(repoName, S_Packages, filename), data) IN
    IF r.ok THEN RepoOk(r.fs) ELSE RepoErr(r.fs, "StoreFailed")

RPMUploadPackage(fs, repoName, filename, data) ==
    IF ~HasSuffix(filename, Ext_rpm) THEN RepoErr(fs, "InvalidFileType")
    ELSE LET r == LocalStore(fs, Join3(repoName, S_Packages, filename), data) IN
         IF r.ok THEN RepoOk(r.fs) ELSE RepoErr(r.fs, "StoreFailed")

RPMDownloadPackage(fs, repoName, filename) ==
    LocalGet(fs, Join3(repoName, S_Packages, filename))

RPMGetMetadata(fs, repoName, filename) ==
    LocalGet(fs, Join3(repoName, S_repodata, filename))

S_primary == <<"-", "p", "r", "i", "m", "a", "r", "y", ".", "x", "m", "l", ".", "g", "z">>

\* the hexadecimal SHA-256 of a byte sequence: distinct bytes, distinct digests
Sha256(data) == <<"#">> \o [i \in 1..Len(data) |-> ToString(data[i])]

\* the elements of a finite set in a fixed order
RECURSIVE SetToSeq(_)
SetToSeq(S) == IF S = {} THEN <<>> ELSE LET x == CHOOSE y \in S : TRUE IN <<x>> \o SetToSeq(S \ {x})

\* the <package> elements of primary.xml: createrepo walks the repository
\* directory and records, for every .rpm file, its location and its sha256
PrimaryPackages(fs, root) ==
    LET rpms == {x \in Descendants(fs, root) :
                    fs[x].kind = "file" /\ HasSuffix(x[Len(x)], Ext_rpm)}
    IN  SetToSeq({[Href |-> JoinSegs(SubSeq(x, Len(root) + 1, Len(x))),
                   Type |-> "sha256", Value |-> Sha256(fs[x].data)] : x \in rpms})

\* the time of a write: later than the time of every metadata file on disk
Now(fs) == 1 + (IF DOMAIN fs = {} THEN 0
                ELSE CHOOSE m \in {ModTime(fs[x]) : x \in DOMAIN fs} :
                        \A x \in DOMAIN fs : ModTime(fs[x]) <= m)

\* the last step of the generator: the new primary file gets the time of the run
createrepoStamp(g, prev, primaryPath, now) ==
    IF ~g.ok THEN RepoErr(prev, "MetadataFailed")
    ELSE RepoOk([g.fs EXCEPT ![Stat(g.fs, primaryPath).path] =
                    [kind |-> "file", data |-> @.data, target |-> <<>>, mtime |-> now]])

\* the generator writes <checksum>-primary.xml.gz (the checksum covers the
\* build time; here it is that time) next to the older metadata, which
\* ExpungeOldMetadata keeps for a day
createrepoPrimary(fs, f, prev, repoPath, now) ==
    IF ~f.ok THEN RepoErr(prev, "MetadataFailed")
    ELSE createrepoStamp(CreateFile(f.fs, Join3(repoPath, S_repodata, <<ToString(now)>> \o S_primary),
                                    PrimaryPackages(fs, Stat(fs, repoPath).path), MaxSymlinks),
                         f.fs, Join3(repoPath, S_repodata, <<ToString(now)>> \o S_primary), now)

\* the generator writes repodata/repomd.xml
createrepoRepomd(fs, d, repoPath) ==
    IF ~d.ok THEN RepoErr(fs, "MetadataFailed")
    ELSE createrepoPrimary(fs, CreateFile(d.fs, Join3(repoPath, S_repodata, S_repomd), <<>>, MaxSymlinks),
                           d.fs, repoPath, Now(fs))

\* createrepo.NewRepo(repoPath, config).Create(): the metadata generator needs
\* the repository directory
RPMRefreshMetadata(fs, repoName) ==
    IF ~StatIsDir(fs, LocalGetPath(repoName)) THEN RepoErr(fs, "MetadataFailed")
    ELSE createrepoRepomd(fs, MkdirAll(fs, Join(LocalGetPath(repoName), S_repodata)),
                          LocalGetPath(repoName))

\* the *-primary.xml.gz files of a listing of repodata/
PrimaryFiles(files) == {f \in files : HasSuffix(Base(f.Name), S_primary)}

\* a loop that keeps the file no other file is older than
OldestOf(primaryFiles) ==
    IF primaryFiles = {} THEN [ok |-> FALSE, name |-> <<>>]
    ELSE [ok |-> TRUE,
          name |-> Base((CHOOSE f \in primaryFiles :
                            \A g \in primaryFiles : f.ModTime <= g.ModTime).Name)]

\* findLatestPrimaryXMLFile, from the test of len(primaryFiles) on: the loop
\* keeps the first file no later file is After; the files of distinct
\* refreshes have distinct times
LatestOf(primaryFiles) ==
    IF primaryFiles = {} THEN [ok |-> FALSE, name |-> <<>>]
    ELSE [ok |-> TRUE,
          name |-> Base((CHOOSE f \in primaryFiles :
                            \A g \in primaryFiles : g.ModTime <= f.ModTime).Name)]

findLatestPrimaryXMLFile(fs, repoName) ==
    LatestOf(PrimaryFiles(LocalListWithOptions(fs, Join(repoName, S_repodata),
                                               ListOptions(1, FALSE, {}))))

\* GetPackageChecksum, from the gzip reader on: the first package of the
\* decoded metadata whose location has the base name and a sha256 checksum
ChecksumOf(reader, filename) ==
    IF ~reader.ok THEN [ok |-> FALSE, sum |-> <<>>, err |-> "GetFailed"]
    ELSE IF \A i \in 1..Len(reader.data) :
               ~(Base(reader.data[i].Href) = Base(filename) /\ reader.data[i].Type = "sha256")
        THEN [ok |-> FALSE, sum |-> <<>>, err |-> "NotFound"]
    ELSE [ok |-> TRUE, err |-> "ok",
          sum |-> reader.data[CHOOSE i \in 1..Len(reader.data) :
                     /\ Base(reader.data[i].Href) = Base(filename)
                     /\ reader.data[i].Type = "sha256"
                     /\ \A j \in 1..(i - 1) : Base(reader.data[j].Href) # Base(filename)].Value]

\* a checksum computed over the stored package, as FilesRepo does
ChecksumLive(fs, repoName, filename, primaryFile) ==
    LET reader == LocalGet(fs, Join3(repoName, S_Packages, filename)) IN
    IF ~reader.ok THEN [ok |-> FALSE, sum |-> <<>>, err |-> "NotFound"]
    ELSE [ok |-> TRUE, sum |-> Sha256(reader.data), err |-> "ok"]

\* GetPackageChecksum, from the result of findLatestPrimaryXMLFile on
ChecksumIn(fs, repoName, filename, primaryFile) ==
    IF ~primaryFile.ok THEN [ok |-> FALSE, sum |-> <<>>, err |-> "NoPrimary"]
    ELSE ChecksumOf(LocalGet(fs, Join3(repoName, S_repodata, primaryFile.name)), filename)

\* RPMRepo.GetPackageChecksum: [ok, sum, err]
RPMGetPackageChecksum(fs, repoName, filename) ==
    IF ~HasSuffix(filename, Ext_rpm) THEN [ok |-> FALSE, sum |-> <<>>, err |-> "InvalidFileType"]
    ELSE ChecksumIn(fs, repoName, filename, findLatestPrimaryXMLFile(fs, repoName))

\* a listing of the whole repository directory
RPMListPackagesFromRoot(fs, repoName) ==
    LET files == LocalListWithOptions(fs, repoName, ListOptions(1, FALSE, {Ext_rpm}))
    IN  {[Name |-> f.Name, Size |-> f.Size] : f \in {g \in files : HasSuffix(g.Name, Ext_rpm)}}

RPMListPackages(fs, repoName) ==
    LET files == LocalListWithOptions(fs, Join(repoName, S_Packages),
                                      ListOptions(1, FALSE, {Ext_rpm}))
    IN  {[Name |-> f.Name, Size |-> f.Size] : f \in {g \in files : HasSuffix(g.Name, Ext_rpm)}}

RPMCreateRepo(fs, repoName) ==
    LET a == LocalCreateDir(fs, repoName)
        b == LocalCreateDir(a.fs, Join(repoName, S_Packages))
    IN  IF ~a.ok THEN RepoErr(a.fs, "CreateFailed")
        ELSE IF ~b.ok THEN RepoErr(b.fs, "CreateFailed")
        ELSE RepoOk(b.fs)

RPMDeleteRepo(fs, repoName) ==
    LET r == LocalDelete(fs, repoName) IN
    IF r.ok THEN RepoOk(r.fs) ELSE RepoErr(r.fs, "DeleteFailed")

\* a listing that asks the storage for files only, as DEBRepo.ListRepos does
RPMListReposNoDirs(fs) ==
    LET files == LocalListWithOptions(fs, <<>>, ListOptions(-1, FALSE, {}))
        dirs == {f \in files : f.IsDir}
    IN  {f.Name : f \in {g \in dirs : g.IsRepo}}

RPMListRepos(fs) ==
    LET files == LocalListWithOptions(fs, <<>>, ListOptions(-1, TRUE, {}))
        dirs == {f \in files : f.IsDir}
    IN  {f.Name : f \in {g \in dirs : g.IsRepo}}
        \cup {Dir(f.Name) : f \in {g \in dirs :
                 /\ HasSuffix(g.Name, Slash \o S_Packages) \/ HasSuffix(g.Name, Slash \o S_repodata)
                 /\ Dir(g.Name) # Dot
                 /\ Dir(g.Name) # Slash}}

FilesUploadPackage(ob, repoName, filename, data) ==
    RepoOk(MinDBStore(ob, Join(repoName, filename), data))

FilesDownloadPackage(ob, repoName, filename) == MinDBGet(ob, Join(repoName, filename))

\* a refresh that leaves an index in the repository
FilesRefreshWritesIndex(ob, repoName) == RepoOk(MinDBStore(ob, Join(repoName, S_Packages), <<>>))

FilesRefreshMetadata(ob, repoName) == RepoOk(ob)

\* a GetMetadata that serves the stored file of that name
FilesGetMetadataServes(ob, repoName, filename) == MinDBGet(ob, Join(repoName, filename))

FilesGetMetadata(ob, repoName, filename) == [ok |-> FALSE, data |-> <<>>]

\* FilesRepo.GetPackageChecksum: the sha256 of the stored bytes
FilesGetPackageChecksum(ob, repoName, filename) ==
    LET reader == MinDBGet(ob, Join(repoName, filename)) IN
    IF ~reader.ok THEN [ok |-> FALSE, sum |-> <<>>, err |-> "NotFound"]
    ELSE [ok |-> TRUE, sum |-> Sha256(reader.data), err |-> "ok"]

FilesListPackages(ob, repoName) ==
    LET files == MinDBListWithOptions(ob, repoName, ListOptions(-1, FALSE, {})) IN
    {[Name |-> IF TrimPrefix(f.Name, repoName \o Slash) = f.Name
                   THEN Base(f.Name) ELSE TrimPrefix(f.Name, repoName \o Slash),
      Size |-> f.Size] : f \in files}

FilesCreateRepo(ob, repoName) ==
    RepoOk(MinDBStore(MinDBCreateDir(ob, repoName), Join(repoName, S_marker), S_files))

FilesDeleteRepo(ob, repoName) == RepoOk(MinDBDelete(ob, repoName))

\* strings.TrimSpace of the marker's content; the marker bytes hold no blanks here
hasRepoTypeMarker(ob, dirPath, expectedType) ==
    LET m == MinDBGet(ob, Join(dirPath, S_marker)) IN
    m.ok /\ m.data = expectedType

FilesListRepos(ob) ==
    LET files == MinDBListWithOptions(ob, <<>>, ListOptions(-1, TRUE, {})) IN
    {f.Name : f \in {g \in files : g.IsDir /\ (g.IsRepo \/ hasRepoTypeMarker(ob, g.Name, S_files))}}

-----------------------------------------------------------------------------
(* RepoService (internal/service).  Every request runs in a goroutine of    *)
(* its own; th[t] is the position of goroutine t inside the handler it      *)
(* runs and the locals it holds.                                            *)

NThreads == 2
Threads == 1..NThreads

NoType == <<>>
Types == {RPM, DEB, Files}

\* the repos handed to NewRepoService by app.Run
Registered == {RPM, Files}

N_a == <<"a">>
RepoNames == {N_a}

F_rpm == <<"p", ".", "r", "p", "m">>
F_RPM == <<"p", ".", "R", "P", "M">>
F_txt == <<"p", ".", "t", "x", "t">>
FileNames == {F_rpm, F_RPM, F_txt}

T_zip == <<"z", "i", "p">>
T_Files == <<"F", "i", "l", "e", "s">>
TypeStrings == {RPM, DEB, Files, T_Files, T_zip}

\* the bytes of an uploaded file
Payload == <<1>>

NoFS == [x \in {} |-> DirNode]

\* the repository layout scenario C leaves on disk before the server starts
LegacyFS(name) ==
    LET a == MkdirAll(NoFS, Join3(BasePath, name, S_repodata)).fs
        b == CreateFile(a, Join3(BasePath, Join(name, S_repodata), S_repomd), <<>>, MaxSymlinks).fs
    IN  CreateFile(b, Join3(BasePath, name, F_rpm), Payload, MaxSymlinks).fs

EmptyFS == MkdirAll(NoFS, BasePath).fs

EmptyObjs == [k \in {} |-> <<>>]

\* sync.RWMutex: w is the goroutine that holds the writer mutex (pending or
\* active, 0 for none); a pending writer keeps new readers out
NoThread == 0
RLockFree == mu.w = NoThread
RLock(t) == [mu EXCEPT !.readers = @ \cup {t}]
\* a return path that leaves the read lock held
RUnlockForgotten(t) == mu
RUnlock(t) == [mu EXCEPT !.readers = @ \ {t}]
LockPending(t) == [mu EXCEPT !.w = t]
LockFree(t) == mu.w = t /\ mu.readers = {}
Unlock == [mu EXCEPT !.w = NoThread]

\* ghost: the last explicit call that completed on a name (ph) and the type
\* it named; "recreated" is a CreateRepo that followed a DeleteRepo of
\* another type
NoHist == [ph |-> "none", ty |-> NoType]
Explicit(ph, ty) == [ph |-> ph, ty |-> ty]

Locals(pc, op, name, file, ts) ==
    [pc |-> pc, op |-> op, name |-> name, file |-> file, ts |-> ts,
     rt |-> NoType, cur |-> NoType, todo |-> {}, pend |-> {},
     res |-> "", out |-> <<>>, names |-> {}, fresh |-> FALSE, stale |-> FALSE,
     data |-> Payload]

\* the methods that hold the read lock around the call of the repo
ReadOps == {"DownloadPackage", "GetMetadata", "ListPackages", "GetPackageChecksum"}

GriOps == {"UploadPackage", "RefreshMetadata", "DeleteRepo"} \cup ReadOps

Entry(op) ==
    IF op \in GriOps THEN "gri_rlock"
    ELSE IF op = "GetRepoType" THEN "grt_rlock"
    ELSE IF op = "ListRepos" THEN "lr_rlock"
    ELSE "parse"

Request(op, name, file, ts) ==
    [op |-> op, name |-> name, file |-> file, ts |-> ts, data |-> Payload]

\* the requests that read: the type lookup, the listing, a download
ReadCalls ==
    {Request("GetRepoType", n, <<>>, <<>>) : n \in RepoNames}
    \cup {Request("ListRepos", <<>>, <<>>, <<>>)}
    \cup {Request("DownloadPackage", n, F_rpm, <<>>) : n \in RepoNames}

\* the requests that change a repository
WriteCalls ==
    {Request("UploadPackage", n, f, <<>>) : n \in RepoNames, f \in FileNames}
    \cup {Request("DeleteRepo", n, <<>>, <<>>) : n \in RepoNames}
    \cup {Request(op, n, <<>>, ts) : op \in {"CreateRepo", "SetRepoType"},
                                     n \in RepoNames, ts \in TypeStrings}

\* a switch whose default case is the files type
ParseTypeLenient(ts) ==
    IF ToLower(ts) = RPM THEN RPM
    ELSE IF ToLower(ts) = DEB THEN DEB
    ELSE Files

\* the switch of CreateRepo and SetRepoType over strings.ToLower(repoTypeStr)
ParseType(ts) ==
    IF ToLower(ts) = RPM THEN RPM
    ELSE IF ToLower(ts) = DEB THEN DEB
    ELSE IF ToLower(ts) = Files THEN Files
    ELSE NoType

validateFileType(filename, repoType) ==
    IF repoType = RPM THEN
        IF ~HasSuffix(ToLower(filename), Ext_rpm) THEN "InvalidFileType" ELSE "ok"
    ELSE IF repoType = DEB THEN
        IF ~HasSuffix(ToLower(filename), Ext_deb) THEN "InvalidFileType" ELSE "ok"
    ELSE IF repoType = Files THEN "ok"
    ELSE "UnknownType"

\* repoInstance.ListRepos of the registered repo of the given type
RepoListRepos(rt) == IF rt = RPM THEN RPMListRepos(lfs) ELSE FilesListRepos(objs)

\* an inference that takes every name for a repository of the first type asked
ClaimsAny(rt, name) == TRUE

\* inferRepoType: the repo's ListRepos holds an entry equal to repoName
Claims(rt, name) == name \in RepoListRepos(rt)

\* a DeleteRepo that leaves the maps alone
MapKeep(m, key) == m

\* delete(m, key) of a Go map
MapDelete(m, key) == [k \in DOMAIN m \ {key} |-> m[k]]

\* m[key] = v of a Go map
MapSet(m, key, v) == [k \in DOMAIN m \cup {key} |-> IF k = key THEN v ELSE m[k]]

\* the handler returns: its result stays visible until the goroutine serves
\* the next request
Return(t, res) ==
    [th EXCEPT ![t] = [Locals("done", th[t].op, th[t].name, <<>>, <<>>) EXCEPT !.res = res]]

ReturnOut(t, res, out) == [Return(t, res) EXCEPT ![t].out = out]

\* goroutines that entered their handler before an explicit call on the name
\* completed did not start after it (ghost: stale marks those still in their
\* handler)
Stale(f, name) ==
    [u \in Threads |-> IF f[u].name = name
                          THEN [f[u] EXCEPT !.fresh = FALSE, !.stale = f[u].pc # "done"]
                          ELSE f[u]]

\* the requests each goroutine serves while repositories are administered:
\* the first goroutine changes them, the others look their type up
Workload(t) ==
    IF t = 1 THEN WriteCalls
    ELSE {Request("GetRepoType", n, <<>>, <<>>) : n \in RepoNames}

\* a request arrives: the handler starts with its arguments
Start(t, c) ==
    th' = [th EXCEPT ![t] = [Locals(Entry(c.op), c.op, c.name, c.file, c.ts)
                             EXCEPT !.fresh = c.op \in GriOps /\ hist[c.name].ph = "recreated",
                                    !.data = c.data]]

Call(t) ==
    /\ th[t].pc = "done"
    /\ \E c \in Workload(t) : Start(t, c)
    /\ UNCHANGED <<lfs, objs, repoTypes, repoConfigs, mu, hist, st, batch>>

\* a request that reads arrives
CallRead(t) ==
    /\ th[t].pc = "done"
    /\ \E c \in ReadCalls : Start(t, c)
    /\ UNCHANGED <<lfs, objs, repoTypes, repoConfigs, mu, hist, st, batch>>

\* getRepoInstance: s.mu.RLock(), the read of s.repoTypes[repoName] and, when
\* the entry exists, the lookup in s.repos and the deferred RUnlock
getRepoInstance_Read(t) ==
    /\ th[t].pc = "gri_rlock"
    /\ RLockFree
    /\ IF th[t].name \in DOMAIN repoTypes
          THEN /\ th' = IF repoTypes[th[t].name] \in Registered
                           THEN [th EXCEPT ![t].rt = repoTypes[th[t].name],
                                           ![t].pc = IF th[t].op \in ReadOps
                                                        THEN "r_rlock" ELSE "w_lock"]
                           ELSE Return(t, "NoHandler")
               /\ mu' = mu
          ELSE /\ th' = [th EXCEPT ![t].pc = "gri_infer", ![t].todo = Registered]
               /\ mu' = RLock(t)
    /\ UNCHANGED <<lfs, objs, repoTypes, repoConfigs, hist, st, batch>>

\* inferRepoType called by getRepoInstance under the read lock: one round of
\* the range over s.repos (Go visits a map in an unspecified order)
getRepoInstance_Infer(t) ==
    /\ th[t].pc = "gri_infer"
    /\ \E rt \in th[t].todo :
          IF Claims(rt, th[t].name)
             THEN /\ th' = [th EXCEPT ![t].rt = rt, ![t].todo = {}, ![t].pc = "gri_lock"]
                  /\ mu' = RUnlock(t)
             ELSE IF th[t].todo = {rt}
                THEN /\ th' = Return(t, "NotFound")
                     /\ mu' = RUnlock(t)
                ELSE /\ th' = [th EXCEPT ![t].todo = @ \ {rt}]
                     /\ mu' = mu
    /\ UNCHANGED <<lfs, objs, repoTypes, repoConfigs, hist, st, batch>>

\* s.mu.Lock() is called: the goroutine takes the writer mutex and waits for
\* the readers to leave
Lock_Request(t) ==
    /\ th[t].pc \in {"gri_lock", "grt_lock"}
    /\ mu.w = NoThread
    /\ mu' = LockPending(t)
    /\ th' = [th EXCEPT ![t].pc = IF th[t].pc = "gri_lock" THEN "gri_wait" ELSE "grt_wait"]
    /\ UNCHANGED <<lfs, objs, repoTypes, repoConfigs, hist, st, batch>>

\* getRepoInstance: s.repoTypes[repoName] = repoType between Lock and Unlock
getRepoInstance_Write(t) ==
    /\ th[t].pc = "gri_wait"
    /\ LockFree(t)
    /\ repoTypes' = MapSet(repoTypes, th[t].name, th[t].rt)
    /\ mu' = Unlock
    /\ th' = [th EXCEPT ![t].pc = "gri_rlock2"]
    /\ UNCHANGED <<lfs, objs, repoConfigs, hist, st, batch>>

\* getRepoInstance: the second s.mu.RLock(), the lookup in s.repos and the
\* deferred RUnlock
getRepoInstance_Return(t) ==
    /\ th[t].pc = "gri_rlock2"
    /\ RLockFree
    /\ th' = IF th[t].rt \in Registered
                THEN [th EXCEPT ![t].pc = IF th[t].op \in ReadOps
                                             THEN "r_rlock" ELSE "w_lock"]
                ELSE Return(t, "NoHandler")
    /\ UNCHANGED <<lfs, objs, repoTypes, repoConfigs, mu, hist, st, batch>>

\* what the handlers do between getRepoInstance and s.mu.Lock(): UploadPackage
\* validates the file type, the others nothing
Handler_Lock(t) ==
    /\ th[t].pc = "w_lock"
    /\ IF th[t].op = "UploadPackage" /\ validateFileType(th[t].file, th[t].rt) # "ok"
          THEN /\ th' = Return(t, validateFileType(th[t].file, th[t].rt))
               /\ mu' = mu
          ELSE /\ mu.w = NoThread
               /\ mu' = LockPending(t)
               /\ th' = [th EXCEPT ![t].pc = "w_wait"]
    /\ UNCHANGED <<lfs, objs, repoTypes, repoConfigs, hist, st, batch>>

\* what a call of the Repo instance of type rt leaves behind
Outcome(r, rt) ==
    [ok |-> r.ok, err |-> r.err,
     lfs |-> IF rt = RPM THEN r.store ELSE lfs,
     objs |-> IF rt = Files THEN r.store ELSE objs]

\* a call that would succeed can also fail in the storage and change nothing
WithIOError(r, rt, e) ==
    {Outcome(r, rt)} \cup (IF r.ok THEN {[ok |-> FALSE, err |-> e, lfs |-> lfs, objs |-> objs]} ELSE {})

RepoUploadPackage(rt, name, file, data) ==
    IF rt = RPM THEN RPMUploadPackage(lfs, name, file, data)
    ELSE FilesUploadPackage(objs, name, file, data)

RepoRefreshMetadata(rt, name) ==
    IF rt = RPM THEN RPMRefreshMetadata(lfs, name) ELSE FilesRefreshMetadata(objs, name)

RepoCreateRepo(rt, name) ==
    IF rt = RPM THEN RPMCreateRepo(lfs, name) ELSE FilesCreateRepo(objs, name)

RepoDeleteRepo(rt, name) ==
    IF rt = RPM THEN RPMDeleteRepo(lfs, name) ELSE FilesDeleteRepo(objs, name)

\* the refreshes of the RPM repositories that a run follows
MaxRefreshes == 2

RepoDownloadPackage(rt, name, file) ==
    IF rt = RPM
        THEN LET f == RPMDownloadPackage(lfs, name, file) IN [ok |-> f.ok, data |-> f.data]
        ELSE FilesDownloadPackage(objs, name, file)

\* UploadPackage: s.mu.Lock(), repoInstance.UploadPackage, the deferred Unlock
UploadPackage(t) ==
    /\ th[t].pc = "w_wait" /\ th[t].op = "UploadPackage"
    /\ LockFree(t)
    /\ \E o \in WithIOError(RepoUploadPackage(th[t].rt, th[t].name, th[t].file, th[t].data),
                            th[t].rt, "StoreFailed") :
          /\ lfs' = o.lfs
          /\ objs' = o.objs
          /\ th' = Return(t, o.err)
    /\ mu' = Unlock
    /\ UNCHANGED <<repoTypes, repoConfigs, hist, st, batch>>

\* RefreshMetadata: s.mu.Lock(), repoInstance.RefreshMetadata, the deferred
\* Unlock; the generator of the RPM repo can fail, the Files repo does nothing
RefreshMetadata(t) ==
    /\ th[t].pc = "w_wait" /\ th[t].op = "RefreshMetadata"
    /\ LockFree(t)
    /\ th[t].rt = RPM => Now(lfs) <= MaxRefreshes
    /\ \E o \in IF th[t].rt = RPM
                  THEN WithIOError(RepoRefreshMetadata(th[t].rt, th[t].name), th[t].rt, "MetadataFailed")
                  ELSE {Outcome(RepoRefreshMetadata(th[t].rt, th[t].name), th[t].rt)} :
          /\ lfs' = o.lfs
          /\ objs' = o.objs
          /\ th' = Return(t, o.err)
    /\ mu' = Unlock
    /\ UNCHANGED <<repoTypes, repoConfigs, hist, st, batch>>

\* DeleteRepo: s.mu.Lock(), repoInstance.DeleteRepo and, when it succeeded, the
\* two delete calls; the deferred Unlock
DeleteRepo(t) ==
    /\ th[t].pc = "w_wait" /\ th[t].op = "DeleteRepo"
    /\ LockFree(t)
    /\ \E o \in WithIOError(RepoDeleteRepo(th[t].rt, th[t].name), th[t].rt, "DeleteFailed") :
          /\ lfs' = o.lfs
          /\ objs' = o.objs
          /\ IF o.ok
                THEN /\ repoTypes' = MapDelete(repoTypes, th[t].name)
                     /\ repoConfigs' = MapDelete(repoConfigs, th[t].name)
                     /\ hist' = [hist EXCEPT ![th[t].name] = Explicit("deleted", th[t].rt)]
                     /\ th' = Stale(Return(t, o.err), th[t].name)
                ELSE /\ UNCHANGED <<repoTypes, repoConfigs, hist>>
                     /\ th' = Return(t, o.err)
    /\ mu' = Unlock
    /\ UNCHANGED <<st, batch>>

\* DownloadPackage: s.mu.RLock(), repoInstance.DownloadPackage, the deferred RUnlock
DownloadPackage(t) ==
    /\ th[t].pc = "r_rlock" /\ th[t].op = "DownloadPackage"
    /\ RLockFree
    /\ LET f == RepoDownloadPackage(th[t].rt, th[t].name, th[t].file) IN
       th' = ReturnOut(t, IF f.ok THEN "ok" ELSE "GetFailed", f.data)
    /\ UNCHANGED <<lfs, objs, repoTypes, repoConfigs, mu, hist, st, batch>>

\* GetMetadata: s.mu.RLock(), repoInstance.GetMetadata, the deferred RUnlock
GetMetadata(t) ==
    /\ th[t].pc = "r_rlock" /\ th[t].op = "GetMetadata"
    /\ RLockFree
    /\ LET f == IF th[t].rt = RPM THEN RPMGetMetadata(lfs, th[t].name, th[t].file)
                ELSE FilesGetMetadata(objs, th[t].name, th[t].file)
       IN th' = ReturnOut(t, IF f.ok THEN "ok"
                             ELSE IF th[t].rt = RPM THEN "GetFailed" ELSE "Unsupported", f.data)
    /\ UNCHANGED <<lfs, objs, repoTypes, repoConfigs, mu, hist, st, batch>>

\* ListPackages: s.mu.RLock(), repoInstance.ListPackages, the deferred RUnlock
ListPackages(t) ==
    /\ th[t].pc = "r_rlock" /\ th[t].op = "ListPackages"
    /\ RLockFree
    /\ th' = ReturnOut(t, "ok", SetToSeq(IF th[t].rt = RPM THEN RPMListPackages(lfs, th[t].name)
                                         ELSE FilesListPackages(objs, th[t].name)))
    /\ UNCHANGED <<lfs, objs, repoTypes, repoConfigs, mu, hist, st, batch>>

\* GetPackageChecksum: s.mu.RLock(), repoInstance.GetPackageChecksum, the
\* deferred RUnlock
GetPackageChecksum(t) ==
    /\ th[t].pc = "r_rlock" /\ th[t].op = "GetPackageChecksum"
    /\ RLockFree
    /\ LET c == IF th[t].rt = RPM THEN RPMGetPackageChecksum(lfs, th[t].name, th[t].file)
                ELSE FilesGetPackageChecksum(objs, th[t].name, th[t].file)
       IN th' = ReturnOut(t, c.err, c.sum)
    /\ UNCHANGED <<lfs, objs, repoTypes, repoConfigs, mu, hist, st, batch>>

\* CreateRepo and SetRepoType up to s.mu.Lock(): the switch over the type
\* string and, in CreateRepo, the lookup in s.repos
Parse(t) ==
    /\ th[t].pc = "parse"
    /\ LET repoType == ParseType(th[t].ts) IN
       IF repoType = NoType
          THEN /\ th' = Return(t, "Unsupported")
               /\ mu' = mu
       ELSE IF th[t].op = "CreateRepo" /\ repoType \notin Registered
          THEN /\ th' = Return(t, "NoHandler")
               /\ mu' = mu
       ELSE /\ mu.w = NoThread
            /\ mu' = LockPending(t)
            /\ th' = [th EXCEPT ![t].pc = "w_wait", ![t].rt = repoType, ![t].ts = <<>>]
    /\ UNCHANGED <<lfs, objs, repoTypes, repoConfigs, hist, st, batch>>

\* CreateRepo under the write lock: repoInstance.CreateRepo, then
\* s.repoTypes[repoName] = repoType
CreateRepo(t) ==
    /\ th[t].pc = "w_wait" /\ th[t].op = "CreateRepo"
    /\ LockFree(t)
    /\ \E o \in WithIOError(RepoCreateRepo(th[t].rt, th[t].name), th[t].rt, "CreateFailed") :
          /\ lfs' = o.lfs
          /\ objs' = o.objs
          /\ IF o.ok
                THEN /\ repoTypes' = MapSet(repoTypes, th[t].name, th[t].rt)
                     /\ hist' = [hist EXCEPT ![th[t].name] =
                                   IF hist[th[t].name].ph = "deleted" /\ hist[th[t].name].ty # th[t].rt
                                      THEN Explicit("recreated", th[t].rt)
                                      ELSE Explicit("created", th[t].rt)]
                     /\ th' = Stale(Return(t, o.err), th[t].name)
                ELSE /\ UNCHANGED <<repoTypes, hist>>
                     /\ th' = Return(t, o.err)
    /\ mu' = Unlock
    /\ UNCHANGED <<repoConfigs, st, batch>>

\* SetRepoType under the write lock
SetRepoType(t) ==
    /\ th[t].pc = "w_wait" /\ th[t].op = "SetRepoType"
    /\ LockFree(t)
    /\ repoTypes' = MapSet(repoTypes, th[t].name, th[t].rt)
    /\ hist' = [hist EXCEPT ![th[t].name] = Explicit("set", th[t].rt)]
    /\ th' = Stale(Return(t, "ok"), th[t].name)
    /\ mu' = Unlock
    /\ UNCHANGED <<lfs, objs, repoConfigs, st, batch>>

S_unknown == <<"u", "n", "k", "n", "o", "w", "n">>

\* GetRepoType: RLock, the read of s.repoTypes[repoName], RUnlock
GetRepoType_Read(t) ==
    /\ th[t].pc = "grt_rlock"
    /\ RLockFree
    /\ th' = IF th[t].name \in DOMAIN repoTypes
                THEN ReturnOut(t, "ok", repoTypes[th[t].name])
                ELSE [th EXCEPT ![t].pc = "grt_infer", ![t].todo = Registered]
    /\ UNCHANGED <<lfs, objs, repoTypes, repoConfigs, mu, hist, st, batch>>

\* inferRepoType called by GetRepoType with no lock held: one round of the
\* range over s.repos
GetRepoType_Infer(t) ==
    /\ th[t].pc = "grt_infer"
    /\ \E rt \in th[t].todo :
          IF Claims(rt, th[t].name)
             THEN th' = [th EXCEPT ![t].rt = rt, ![t].todo = {}, ![t].pc = "grt_lock"]
             ELSE IF th[t].todo = {rt}
                THEN th' = ReturnOut(t, "NotFound", S_unknown)
                ELSE th' = [th EXCEPT ![t].todo = @ \ {rt}]
    /\ UNCHANGED <<lfs, objs, repoTypes, repoConfigs, mu, hist, st, batch>>

\* GetRepoType: s.repoTypes[repoName] = inferredType between Lock and Unlock
GetRepoType_Write(t) ==
    /\ th[t].pc = "grt_wait"
    /\ LockFree(t)
    /\ repoTypes' = MapSet(repoTypes, th[t].name, th[t].rt)
    /\ mu' = Unlock
    /\ th' = ReturnOut(t, "ok", th[t].rt)
    /\ UNCHANGED <<lfs, objs, repoConfigs, hist, st, batch>>

\* ListRepos: s.mu.RLock()
ListRepos_RLock(t) ==
    /\ th[t].pc = "lr_rlock"
    /\ RLockFree
    /\ mu' = RLock(t)
    /\ th' = [th EXCEPT ![t].pc = "lr_scan", ![t].todo = Registered]
    /\ UNCHANGED <<lfs, objs, repoTypes, repoConfigs, hist, st, batch>>

\* ListRepos: the next round of the range over s.repos, or the return with the
\* deferred RUnlock when no repo is left
ListRepos_Scan(t) ==
    /\ th[t].pc = "lr_scan"
    /\ IF th[t].todo = {}
          THEN /\ th' = [Return(t, "ok") EXCEPT ![t].name = <<>>, ![t].names = th[t].names]
               /\ mu' = RUnlock(t)
          ELSE /\ \E rt \in th[t].todo :
                     th' = [th EXCEPT ![t].cur = rt,
                                      ![t].todo = @ \ {rt},
                                      ![t].pend = RepoListRepos(rt),
                                      ![t].names = @ \cup RepoListRepos(rt),
                                      ![t].pc = IF RepoListRepos(rt) = {} THEN "lr_scan" ELSE "lr_check"]
               /\ mu' = mu
    /\ UNCHANGED <<lfs, objs, repoTypes, repoConfigs, hist, st, batch>>

\* ListRepos: the test `_, exists := s.repoTypes[repoName]` for the next name
ListRepos_Check(t) ==
    /\ th[t].pc = "lr_check"
    /\ \E n \in th[t].pend :
          th' = [th EXCEPT ![t].pend = @ \ {n},
                           ![t].name = n,
                           ![t].pc = IF n \notin DOMAIN repoTypes THEN "lr_write"
                                     ELSE IF th[t].pend = {n} THEN "lr_scan" ELSE "lr_check"]
    /\ UNCHANGED <<lfs, objs, repoTypes, repoConfigs, mu, hist, st, batch>>

\* ListRepos: s.repoTypes[repoName] = repoType, written under the read lock
ListRepos_Write(t) ==
    /\ th[t].pc = "lr_write"
    /\ repoTypes' = MapSet(repoTypes, th[t].name, th[t].cur)
    /\ th' = [th EXCEPT ![t].pc = IF th[t].pend = {} THEN "lr_scan" ELSE "lr_check"]
    /\ UNCHANGED <<lfs, objs, repoConfigs, mu, hist, st, batch>>

NoMap == [k \in {} |-> NoType]

\* no batch upload is being handled
NoBatch ==
    [pc |-> "off", repo |-> <<>>, files |-> <<>>, auto |-> FALSE, i |-> 0,
     Total |-> 0, Success |-> 0, Failed |-> 0, Results |-> <<>>, Status |-> "",
     refreshes |-> 0]

\* no storage call has been made
NoSt == [op |-> "none", path |-> <<>>, ok |-> FALSE, data |-> <<>>, files |-> {}]

\* NewRepoService: empty maps; the storages hold what earlier runs of the
\* server (or the operator, scenario C) left in them
Init ==
    /\ lfs \in {EmptyFS, LegacyFS(N_a)}
    /\ objs \in {EmptyObjs, FilesCreateRepo(EmptyObjs, N_a).store}
    /\ repoTypes = NoMap
    /\ repoConfigs = NoMap
    /\ mu = [w |-> NoThread, readers |-> {}]
    /\ th = [t \in Threads |-> Locals("done", "none", <<>>, <<>>, <<>>)]
    /\ hist = [n \in RepoNames |-> NoHist]
    /\ st = NoSt
    /\ batch = NoBatch

\* the service while one goroutine administers repositories and the others
\* look types up
Next ==
    \E t \in Threads :
        \/ Call(t)
        \/ getRepoInstance_Read(t)
        \/ getRepoInstance_Infer(t)
        \/ Lock_Request(t)
        \/ getRepoInstance_Write(t)
        \/ getRepoInstance_Return(t)
        \/ Handler_Lock(t)
        \/ UploadPackage(t)
        \/ DeleteRepo(t)
        \/ Parse(t)
        \/ CreateRepo(t)
        \/ SetRepoType(t)
        \/ GetRepoType_Read(t)
        \/ GetRepoType_Infer(t)
        \/ GetRepoType_Write(t)

Spec == Init /\ [][Next]_vars

\* the service under read load only: every goroutine reads
NextReadLoad ==
    \E t \in Threads :
        \/ CallRead(t)
        \/ getRepoInstance_Read(t)
        \/ getRepoInstance_Infer(t)
        \/ Lock_Request(t)
        \/ getRepoInstance_Write(t)
        \/ getRepoInstance_Return(t)
        \/ DownloadPackage(t)
        \/ GetRepoType_Read(t)
        \/ GetRepoType_Infer(t)
        \/ GetRepoType_Write(t)
        \/ ListRepos_RLock(t)
        \/ ListRepos_Scan(t)
        \/ ListRepos_Check(t)
        \/ ListRepos_Write(t)

SpecReadLoad == Init /\ [][NextReadLoad]_vars

TypeOK ==
    /\ DOMAIN repoTypes \subseteq RepoNames
    /\ \A n \in DOMAIN repoTypes : repoTypes[n] \in Types
    /\ mu.w \in Threads \cup {NoThread}
    /\ mu.readers \subseteq Threads

-----------------------------------------------------------------------------
(* LocalStorage called directly, over a root that holds symbolic links      *)

\* a directory next to the storage root, and the file in it
Outside == <<"/", "o">>
P_x == <<"x">>
Secret == <<7, 7>>

P_f == <<"f">>
P_l == <<"l">>
P_m == <<"m">>
P_mx == <<"m", "/", "x">>
P_n == <<"n">>
LocalPaths == {P_f, P_l, P_m, P_mx, P_n}

\* os.Symlink(target, path): the link itself is the new entry
Symlink(fs, path, target) ==
    [x \in DOMAIN fs \cup {Segs(path)} |-> IF x = Segs(path) THEN LinkNode(target) ELSE fs[x]]

\* the root with a file f, a link l to the file outside and a link m to the
\* directory outside
LinkedFS(withTarget) ==
    LET a == MkdirAll(MkdirAll(NoFS, BasePath).fs, Outside).fs
        b == IF withTarget THEN CreateFile(a, Join(Outside, P_x), Secret, MaxSymlinks).fs ELSE a
        c == CreateFile(b, Join(BasePath, P_f), Payload, MaxSymlinks).fs
        d == Symlink(c, Join(BasePath, P_l), Join(Outside, P_x))
    IN  Symlink(d, Join(BasePath, P_m), Outside)

Called(op, path, ok, data, files) ==
    [op |-> op, path |-> path, ok |-> ok, data |-> data, files |-> files]

Local_Store ==
    \E path \in LocalPaths :
        LET r == LocalStore(lfs, path, Payload) IN
        /\ lfs' = r.fs
        /\ st' = Called("Store", path, r.ok, <<>>, {})
        /\ UNCHANGED <<objs, repoTypes, repoConfigs, mu, th, hist, batch>>

Local_Get ==
    \E path \in LocalPaths :
        LET r == LocalGet(lfs, path) IN
        /\ st' = Called("Get", path, r.ok, r.data, {})
        /\ UNCHANGED <<lfs, objs, repoTypes, repoConfigs, mu, th, hist, batch>>

Local_Delete ==
    \E path \in LocalPaths :
        LET r == LocalDelete(lfs, path) IN
        /\ lfs' = r.fs
        /\ st' = Called("Delete", path, r.ok, <<>>, {})
        /\ UNCHANGED <<objs, repoTypes, repoConfigs, mu, th, hist, batch>>

Local_CreateDir ==
    \E path \in LocalPaths :
        LET r == LocalCreateDir(lfs, path) IN
        /\ lfs' = r.fs
        /\ st' = Called("CreateDir", path, r.ok, <<>>, {})
        /\ UNCHANGED <<objs, repoTypes, repoConfigs, mu, th, hist, batch>>

Local_Exists ==
    \E path \in LocalPaths :
        /\ st' = Called("Exists", path, LocalExists(lfs, path).exists, <<>>, {})
        /\ UNCHANGED <<lfs, objs, repoTypes, repoConfigs, mu, th, hist, batch>>

Local_ListWithOptions ==
    \E prefix \in {<<>>, P_m}, includeDirs \in BOOLEAN :
        /\ st' = Called("ListWithOptions", prefix, TRUE, <<>>,
                        LocalListWithOptions(lfs, prefix, ListOptions(-1, includeDirs, {})))
        /\ UNCHANGED <<lfs, objs, repoTypes, repoConfigs, mu, th, hist, batch>>

InitLocal ==
    /\ lfs \in {LinkedFS(TRUE), LinkedFS(FALSE)}
    /\ objs = EmptyObjs
    /\ repoTypes = NoMap
    /\ repoConfigs = NoMap
    /\ mu = [w |-> NoThread, readers |-> {}]
    /\ th = [t \in Threads |-> Locals("done", "none", <<>>, <<>>, <<>>)]
    /\ hist = [n \in RepoNames |-> NoHist]
    /\ st = NoSt
    /\ batch = NoBatch

NextLocal ==
    \/ Local_Store
    \/ Local_Get
    \/ Local_Delete
    \/ Local_CreateDir
    \/ Local_Exists
    \/ Local_ListWithOptions

SpecLocal == InitLocal /\ [][NextLocal]_vars

-----------------------------------------------------------------------------
(* API.BatchUpload (internal/api): the handler runs in goroutine 1 and      *)
(* calls the service from it                                                *)

MaxBatch == 3

F_deb == <<"p", ".", "d", "e", "b">>
BatchFileNames == {F_rpm, F_deb, F_txt}

\* form.File["files"] of a request
BatchFiles == UNION {[1..n -> BatchFileNames] : n \in 1..MaxBatch}

Handler == 1

\* a handler that sends every file to the service
NeverUnsupported(filename) == FALSE

\* uploadSingleFile: the filename ends in neither .rpm nor .deb
UnsupportedFileType(filename) ==
    ~HasSuffix(filename, Ext_rpm) /\ ~HasSuffix(filename, Ext_deb)

\* a handler that does not wait for the range over files to end
LoopDoneAlways(b) == TRUE

\* the range over files has visited every file
LoopDone(b) == b.i > Len(b.files)

\* a loop that appends the result of a failed file without counting it
RecordUncounted(b, status) ==
    [b EXCEPT !.pc = "loop",
              !.i = @ + 1,
              !.Results = Append(@, [Filename |-> b.files[b.i], Status |-> status]),
              !.Success = IF status = "success" THEN @ + 1 ELSE @]

\* response.Results = append(...) and the count of the result
Record(b, status) ==
    [b EXCEPT !.pc = "loop",
              !.i = @ + 1,
              !.Results = Append(@, [Filename |-> b.files[b.i], Status |-> status]),
              !.Success = IF status = "success" THEN @ + 1 ELSE @,
              !.Failed = IF status = "success" THEN @ ELSE @ + 1]

\* BatchUpload up to the loop: the form is parsed, the response is set up
BatchUpload_Begin ==
    /\ batch.pc \in {"off", "responded"}
    /\ \E repo \in RepoNames, files \in BatchFiles, auto \in BOOLEAN :
          batch' = [NoBatch EXCEPT !.pc = "loop", !.repo = repo, !.files = files,
                                   !.auto = auto, !.i = 1, !.Total = Len(files)]
    /\ UNCHANGED <<lfs, objs, repoTypes, repoConfigs, mu, th, hist, st>>

\* uploadSingleFile for the next file: the extension test and, if the file
\* passes, the call of the service's UploadPackage
uploadSingleFile ==
    /\ batch.pc = "loop"
    /\ ~LoopDone(batch)
    /\ IF UnsupportedFileType(batch.files[batch.i])
          THEN /\ batch' = Record(batch, "failed")
               /\ th' = th
          ELSE /\ batch' = [batch EXCEPT !.pc = "upload"]
               /\ th' = [th EXCEPT ![Handler] =
                           Locals(Entry("UploadPackage"), "UploadPackage", batch.repo,
                                  batch.files[batch.i], <<>>)]
    /\ UNCHANGED <<lfs, objs, repoTypes, repoConfigs, mu, hist, st>>

\* uploadSingleFile returns what the service answered; the loop counts it
BatchUpload_Count ==
    /\ batch.pc = "upload"
    /\ th[Handler].pc = "done"
    /\ batch' = Record(batch, IF th[Handler].res = "ok" THEN "success" ELSE "failed")
    /\ UNCHANGED <<lfs, objs, repoTypes, repoConfigs, mu, th, hist, st>>

\* after the loop, with auto_refresh = "true": the call of RefreshMetadata
BatchUpload_Refresh ==
    /\ batch.pc = "loop"
    /\ LoopDone(batch)
    /\ batch.auto
    /\ batch' = [batch EXCEPT !.pc = "refresh", !.refreshes = @ + 1]
    /\ th' = [th EXCEPT ![Handler] =
                Locals(Entry("RefreshMetadata"), "RefreshMetadata", batch.repo, <<>>, <<>>)]
    /\ UNCHANGED <<lfs, objs, repoTypes, repoConfigs, mu, hist, st>>

\* response.Status and the JSON response
BatchUpload_Respond ==
    /\ \/ /\ batch.pc = "refresh"
          /\ th[Handler].pc = "done"
          /\ batch' = [batch EXCEPT !.pc = "responded",
                                    !.Status = IF th[Handler].res = "ok"
                                                  THEN "success" ELSE "partial_success"]
       \/ /\ batch.pc = "loop"
          /\ LoopDone(batch)
          /\ ~batch.auto
          /\ batch' = [batch EXCEPT !.pc = "responded",
                                    !.Status = IF batch.Failed = 0 THEN "success"
                                               ELSE IF batch.Success > 0 THEN "partial_success"
                                               ELSE "failed"]
    /\ UNCHANGED <<lfs, objs, repoTypes, repoConfigs, mu, th, hist, st>>

NextBatch ==
    \/ BatchUpload_Begin
    \/ uploadSingleFile
    \/ BatchUpload_Count
    \/ BatchUpload_Refresh
    \/ BatchUpload_Respond
    \/ \E t \in Threads :
          \/ getRepoInstance_Read(t)
          \/ getRepoInstance_Infer(t)
          \/ Lock_Request(t)
          \/ getRepoInstance_Write(t)
          \/ getRepoInstance_Return(t)
          \/ Handler_Lock(t)
          \/ UploadPackage(t)
          \/ RefreshMetadata(t)

SpecBatch == Init /\ [][NextBatch]_vars

-----------------------------------------------------------------------------
(* One client that works on a repository of a nested name through every     *)
(* method of the service, one call after the other.                         *)

N_cx == <<"c", "/", "x">>

Payload2 == <<2, 2>>
Payloads == {Payload, Payload2}

RepoCalls ==
    {Request("CreateRepo", N_cx, <<>>, ts) : ts \in {RPM, Files}}
    \cup {[Request("UploadPackage", N_cx, f, <<>>) EXCEPT !.data = d] :
             f \in {F_rpm, F_txt}, d \in Payloads}
    \cup {Request(op, N_cx, <<>>, <<>>) : op \in {"RefreshMetadata", "ListPackages", "DeleteRepo"}}
    \cup {Request(op, N_cx, f, <<>>) : op \in {"GetPackageChecksum", "DownloadPackage"},
                                       f \in {F_rpm, F_txt}}
    \cup {Request("GetMetadata", N_cx, f, <<>>) : f \in {S_repomd, F_txt}}

CallRepo(t) ==
    /\ th[t].pc = "done"
    /\ \E c \in RepoCalls : Start(t, c)
    /\ UNCHANGED <<lfs, objs, repoTypes, repoConfigs, mu, hist, st, batch>>

InitRepo ==
    /\ lfs \in {EmptyFS, LegacyFS(N_cx)}
    /\ objs = EmptyObjs
    /\ repoTypes = NoMap
    /\ repoConfigs = NoMap
    /\ mu = [w |-> NoThread, readers |-> {}]
    /\ th = [t \in Threads |-> Locals("done", "none", <<>>, <<>>, <<>>)]
    /\ hist = [n \in {N_cx} |-> NoHist]
    /\ st = NoSt
    /\ batch = NoBatch

NextRepo ==
    \E t \in {Handler} :
        \/ CallRepo(t)
        \/ getRepoInstance_Read(t)
        \/ getRepoInstance_Infer(t)
        \/ Lock_Request(t)
        \/ getRepoInstance_Write(t)
        \/ getRepoInstance_Return(t)
        \/ Handler_Lock(t)
        \/ UploadPackage(t)
        \/ RefreshMetadata(t)
        \/ DeleteRepo(t)
        \/ DownloadPackage(t)
        \/ GetMetadata(t)
        \/ ListPackages(t)
        \/ GetPackageChecksum(t)
        \/ Parse(t)
        \/ CreateRepo(t)

SpecRepo == InitRepo /\ [][NextRepo]_vars

-----------------------------------------------------------------------------
(* Properties of the type memo *)

\* the step is the return of goroutine t from the handler op
Returns(t, op) == th[t].op = op /\ th[t].pc # "done" /\ th'[t].pc = "done"

\* a DeleteRepo or SetRepoType on the name completes in this step
ExplicitChange(n) ==
    \E t \in Threads : th[t].name = n /\ (Returns(t, "DeleteRepo") \/ Returns(t, "SetRepoType"))

\* C1: once repoTypes[name] holds a type, the entry keeps that type and every
\* GetRepoType(name) that returns afterwards returns it, until a DeleteRepo or
\* SetRepoType on the name; checked under read load only
C1_MemoStable ==
    [][/\ \A n \in RepoNames :
             n \in DOMAIN repoTypes /\ ~ExplicitChange(n)
                => n \in DOMAIN repoTypes' /\ repoTypes'[n] = repoTypes[n]
       /\ \A t \in Threads :
             /\ Returns(t, "GetRepoType")
             /\ th'[t].res = "ok"
             /\ th[t].name \in DOMAIN repoTypes
             => th'[t].out = repoTypes[th[t].name]]_vars

\* C2: from the return of a successful CreateRepo(name, type) until the next
\* explicit call on the name, repoTypes[name] is the type CreateRepo parsed: no
\* inferred mapping replaces it
C2_CreateWins ==
    \A n \in RepoNames :
        hist[n].ph \in {"created", "recreated"}
            => n \in DOMAIN repoTypes /\ repoTypes[n] = hist[n].ty

\* C3: a DeleteRepo whose Repo-level delete succeeded returns with the name in
\* neither repoTypes nor repoConfigs
C3_DeleteEvicts ==
    [][\A t \in Threads :
          Returns(t, "DeleteRepo") /\ th'[t].res = "ok"
             => /\ th[t].name \notin DOMAIN repoTypes'
                /\ th[t].name \notin DOMAIN repoConfigs']_vars

\* a DeleteRepo has returned successfully and the name is in neither map
C3_Witness ==
    \E t \in Threads :
        /\ th[t].op = "DeleteRepo" /\ th[t].pc = "done" /\ th[t].res = "ok"
        /\ hist[th[t].name].ph = "deleted"
        /\ th[t].name \notin DOMAIN repoTypes
        /\ th[t].name \notin DOMAIN repoConfigs

\* the positions at which a handler holds the Repo instance getRepoInstance gave it
Dispatched == {"w_lock", "w_wait", "r_rlock"}

\* C4: an operation that starts after a successful DeleteRepo(name) and a
\* successful CreateRepo(name, t2) of another type (and before the next explicit
\* call on the name) is dispatched to the Repo instance of type t2
C4_DispatchAfterRecreate ==
    \A t \in Threads :
        th[t].fresh /\ th[t].pc \in Dispatched => th[t].rt = hist[th[t].name].ty

\* C6: an UploadPackage that resolved its repository to RPM and whose filename
\* does not end in .rpm leaves both storages as they are and, when it returns,
\* returns the invalid-file-type error
C6_ExtensionGate ==
    [][\A t \in Threads :
          /\ th[t].op = "UploadPackage"
          /\ th[t].pc \in Dispatched
          /\ th[t].rt = RPM
          /\ ~HasSuffix(th[t].file, Ext_rpm)
          /\ th'[t].pc # th[t].pc
          => /\ lfs' = lfs
             /\ objs' = objs
             /\ th'[t].pc = "done" => th'[t].res = "InvalidFileType"]_vars

\* an upload was rejected for its file type
C6_Witness ==
    \E t \in Threads :
        th[t].op = "UploadPackage" /\ th[t].pc = "done" /\ th[t].res = "InvalidFileType"

\* scenario C: the legacy directory on disk, nothing under that name in the
\* Files store
LegacyOnly == lfs = LegacyFS(N_a) /\ objs = EmptyObjs

\* C9: with the legacy directory on disk and no CreateRepo for it, every
\* ListRepos result holds the name and every GetRepoType of it returns "rpm",
\* whatever the order of the range over s.repos
C9_LegacyInference ==
    LegacyOnly /\ hist[N_a].ph = "none" =>
        \A t \in Threads :
            th[t].pc = "done" =>
                /\ th[t].op = "ListRepos" => N_a \in th[t].names
                /\ th[t].op = "GetRepoType" /\ th[t].name = N_a
                      => th[t].res = "ok" /\ th[t].out = RPM

\* a ListRepos has listed the legacy repository, which memoized it, and a
\* GetRepoType has returned "rpm"
C9_Witness ==
    /\ LegacyOnly /\ hist[N_a].ph = "none"
    /\ N_a \in DOMAIN repoTypes /\ repoTypes[N_a] = RPM
    /\ \E t, u \in Threads :
          /\ th[t].op = "ListRepos" /\ th[t].pc = "done" /\ N_a \in th[t].names
          /\ th[u].op = "GetRepoType" /\ th[u].pc = "done" /\ th[u].out = RPM

\* no entry in s.repoTypes and no registered repo lists the name
Unresolvable(n) ==
    n \notin DOMAIN repoTypes /\ \A rt \in Registered : n \notin RepoListRepos(rt)

Resolving == {"gri_rlock", "gri_infer", "grt_rlock", "grt_infer"}

\* C10: while a name is unresolvable, a step of an operation that resolves it
\* either goes on with the inference or returns the not-found error, and no
\* type is memoized for the name
C10_CannotInfer ==
    [][\A t \in Threads :
          /\ th[t].pc \in Resolving
          /\ Unresolvable(th[t].name)
          /\ th'[t].pc # th[t].pc
          => /\ \/ th'[t].pc \in {"gri_infer", "grt_infer"}
                \/ th'[t].pc = "done" /\ th'[t].res = "NotFound"
             /\ repoTypes' = repoTypes]_vars

\* both lookups have answered not-found for a name no repo holds
C10_Witness ==
    /\ Unresolvable(N_a)
    /\ \E t, u \in Threads :
          /\ th[t].op = "UploadPackage" /\ th[t].pc = "done" /\ th[t].res = "NotFound"
          /\ th[u].op = "GetRepoType" /\ th[u].pc = "done" /\ th[u].res = "NotFound"
                /\ th[u].out = S_unknown

-----------------------------------------------------------------------------
(* Properties of LocalStorage *)

\* the path, resolved as the OS resolves it, lies outside the storage root
Escapes(path) ==
    LET r == Stat(lfs, Join(BasePath, path)) IN
    r.ok /\ ~IsSegPrefix(Segs(BasePath), r.path)

\* C5: a path that a symbolic link takes outside the storage root is not
\* followed: Get does not open it, Exists does not report it, ListWithOptions
\* does not list it
C5_SymlinkSafety ==
    /\ st.op = "Get" /\ Escapes(st.path) => ~st.ok
    /\ st.op = "Exists" /\ Escapes(st.path) => ~st.ok
    /\ st.op = "ListWithOptions" => \A f \in st.files : ~Escapes(Join(st.path, f.Name))

-----------------------------------------------------------------------------
(* Properties of the batch upload *)

InvalidExtension(filename) ==
    ~HasSuffix(filename, Ext_rpm) /\ ~HasSuffix(filename, Ext_deb)

\* the batch holds three files, exactly one with an invalid extension, and the
\* two others were uploaded successfully
OneOfThreeInvalid(b) ==
    /\ Len(b.files) = 3
    /\ Len(b.Results) = 3
    /\ Cardinality({k \in 1..3 : InvalidExtension(b.files[k])}) = 1
    /\ \A k \in 1..3 : ~InvalidExtension(b.files[k]) => b.Results[k].Status = "success"

C7_Totals ==
    batch.pc = "responded" /\ OneOfThreeInvalid(batch)
        => batch.Total = 3 /\ batch.Success = 2 /\ batch.Failed = 1

\* C7: the response to a batch of three files, one with an invalid extension
\* and two uploaded successfully, reports total=3, success=2, failed=1; the
\* step that handles a file with an invalid extension writes nothing to either
\* storage and does not call the service
C7_BatchPartialFailure ==
    [][/\ C7_Totals'
       /\ /\ batch.pc = "loop"
          /\ batch.i <= Len(batch.files)
          /\ InvalidExtension(batch.files[batch.i])
          => lfs' = lfs /\ objs' = objs /\ th' = th]_vars

\* such a batch has been answered
C7_Witness ==
    /\ batch.pc = "responded"
    /\ OneOfThreeInvalid(batch)
    /\ [k \in 1..3 |-> batch.Results[k].Status] = <<"success", "failed", "success">>
    /\ batch.Success = 2

\* C8: RefreshMetadata runs for a batch only if auto_refresh is set, only once
\* the upload attempt of every file has returned, and at most once
C8_RefreshAfterAll ==
    /\ batch.refreshes <= 1
    /\ batch.refreshes = 1 => batch.auto /\ Len(batch.Results) = Len(batch.files)
    /\ \A t \in Threads :
          th[t].op = "RefreshMetadata" /\ th[t].pc # "done"
             => batch.refreshes = 1 /\ batch.pc = "refresh"

\* a batch of three files was answered after its one refresh
C8_Witness ==
    /\ batch.pc = "responded"
    /\ batch.auto
    /\ Len(batch.files) = 3
    /\ batch.refreshes = 1
    /\ th[Handler].op = "RefreshMetadata" /\ th[Handler].res = "ok"

-----------------------------------------------------------------------------
(* Properties of the repository operations, one client (SpecRepo) *)

\* the metadata files a refresh left in the repository, and the newest of them
PrimaryNodes(fs, n) ==
    {x \in DOMAIN fs : /\ "mtime" \in DOMAIN fs[x]
                       /\ IsSegPrefix(Segs(Join3(BasePath, n, S_repodata)), x)}

Newest(fs, n) ==
    CHOOSE x \in PrimaryNodes(fs, n) : \A y \in PrimaryNodes(fs, n) : fs[y].mtime <= fs[x].mtime

\* the checksums a metadata file records for the package of the file name
RecordedIn(fs, x, f) ==
    {fs[x].data[i].Value : i \in {j \in 1..Len(fs[x].data) : Base(fs[x].data[j].Href) = f}}

\* goroutine t is about to run the repo call of the RPM repo for the method
AtRpmCall(t, op) == th[t].op = op /\ th[t].pc = "r_rlock" /\ th[t].rt = RPM /\ th'[t].pc = "done"

\* C11: a refresh of an RPM repository records every package file under its
\* current sha256 in a new primary file, and GetPackageChecksum answers for a
\* package the newest primary file records with the checksum recorded there,
\* also when older primary files are present.
C11_ChecksumFromLatest ==
    [][\A t \in Threads :
          /\ (/\ th[t].op = "RefreshMetadata" /\ th[t].pc = "w_wait" /\ th[t].rt = RPM
              /\ th'[t].pc = "done" /\ th'[t].res = "ok")
             => /\ PrimaryNodes(lfs', th[t].name) # {}
                /\ \A x \in DOMAIN lfs' :
                      (/\ lfs'[x].kind = "file"
                       /\ IsSegPrefix(Segs(Join(BasePath, th[t].name)), x)
                       /\ HasSuffix(x[Len(x)], Ext_rpm))
                      => Sha256(lfs'[x].data) \in RecordedIn(lfs', Newest(lfs', th[t].name), x[Len(x)])
          /\ (/\ AtRpmCall(t, "GetPackageChecksum")
              /\ PrimaryNodes(lfs, th[t].name) # {}
              /\ RecordedIn(lfs, Newest(lfs, th[t].name), th[t].file) # {})
             => /\ th'[t].res = "ok"
                /\ th'[t].out \in RecordedIn(lfs, Newest(lfs, th[t].name), th[t].file)]_vars

\* the checksum came from the newest of two primary files that disagree
C11_Witness ==
    /\ th[Handler].op = "GetPackageChecksum" /\ th[Handler].pc = "done" /\ th[Handler].res = "ok"
    /\ \E x \in PrimaryNodes(lfs, N_cx) :
          /\ x # Newest(lfs, N_cx)
          /\ RecordedIn(lfs, x, F_rpm) # {}
          /\ th[Handler].out \notin RecordedIn(lfs, x, F_rpm)
          /\ th[Handler].out \in RecordedIn(lfs, Newest(lfs, N_cx), F_rpm)

\* C12: GetPackageChecksum of an RPM repository fails, with the error the
\* handler turns into 404, whenever the newest primary file does not record
\* the package: before any refresh, and for a package stored after the last one.
C12_ChecksumAbsent ==
    [][\A t \in Threads :
          (/\ AtRpmCall(t, "GetPackageChecksum")
           /\ \/ PrimaryNodes(lfs, th[t].name) = {}
              \/ RecordedIn(lfs, Newest(lfs, th[t].name), th[t].file) = {})
          => /\ th'[t].res # "ok"
             /\ HasSuffix(th[t].file, Ext_rpm) => th'[t].res \in {"NoPrimary", "NotFound"}]_vars

\* the package is stored, the newest primary file is older and does not list it
C12_Witness ==
    /\ th[Handler].op = "GetPackageChecksum" /\ th[Handler].pc = "done"
    /\ th[Handler].res = "NotFound"
    /\ PrimaryNodes(lfs, N_cx) # {}
    /\ Segs(Join3(BasePath, N_cx, Join(S_Packages, F_rpm))) \in DOMAIN lfs

\* what CreateRepo(c/x, "rpm"), UploadPackage(c/x, p.rpm, d) and
\* RefreshMetadata(c/x) leave of an empty storage
ScenarioA(d) ==
    RPMRefreshMetadata(RPMUploadPackage(RPMCreateRepo(EmptyFS, N_cx).store, N_cx, F_rpm, d).store,
                       N_cx).store

\* C13: after CreateRepo(c/x, "rpm"), UploadPackage(c/x, p.rpm, d) and
\* RefreshMetadata(c/x), ListPackages(c/x) yields exactly one entry, named
\* p.rpm, of size len(d).
C13_ScenarioA ==
    [][\A t \in Threads : \A d \in Payloads :
          (AtRpmCall(t, "ListPackages") /\ th[t].name = N_cx /\ lfs = ScenarioA(d))
          => th'[t].res = "ok" /\ th'[t].out = <<[Name |-> F_rpm, Size |-> Len(d)]>>]_vars

C13_Witness ==
    /\ th[Handler].op = "ListPackages" /\ th[Handler].pc = "done" /\ th[Handler].res = "ok"
    /\ lfs = ScenarioA(Payload2)
    /\ hist[N_cx] = Explicit("created", RPM)
    /\ th[Handler].out = <<[Name |-> F_rpm, Size |-> 2]>>

\* C14: RefreshMetadata of a Files repository succeeds and changes nothing in
\* either storage.
C14_FilesRefreshNoop ==
    [][\A t \in Threads :
          (/\ th[t].op = "RefreshMetadata" /\ th[t].pc = "w_wait" /\ th[t].rt = Files
           /\ th'[t].pc = "done")
          => th'[t].res = "ok" /\ objs' = objs /\ lfs' = lfs]_vars

\* the refresh returned on a Files repository that was created and holds an upload
C14_Witness ==
    /\ th[Handler].op = "RefreshMetadata" /\ th[Handler].pc = "done" /\ th[Handler].res = "ok"
    /\ hist[N_cx] = Explicit("created", Files)
    /\ N_cx \in DOMAIN repoTypes /\ repoTypes[N_cx] = Files
    /\ Join(N_cx, F_txt) \in DOMAIN objs

\* C15: GetMetadata of a Files repository fails as unsupported, whatever the
\* file name and whether or not the repository stores a file of that name.
C15_FilesNoMetadata ==
    [][\A t \in Threads :
          (/\ th[t].op = "GetMetadata" /\ th[t].pc = "r_rlock" /\ th[t].rt = Files
           /\ th'[t].pc = "done")
          => th'[t].res = "Unsupported"]_vars

\* an unsupported GetMetadata for a file the Files repository stores
C15_Witness ==
    /\ th[Handler].op = "GetMetadata" /\ th[Handler].pc = "done"
    /\ th[Handler].res = "Unsupported"
    /\ Join(N_cx, F_txt) \in DOMAIN objs

-----------------------------------------------------------------------------
(* The Storage interface called directly, on either backend: LocalStorage    *)
(* over a root that holds symbolic links, MinDBStorage (registered as the    *)
(* S3 backend) over an empty bucket.                                        *)
(* st holds the backend, the call in progress and, after its return, its    *)
(* results.                                                                  *)

Local == "local"
S3 == "s3"

P_fx == <<"f", "/", "x">>
P_d == <<"d">>
P_de == <<"d", "/", "e">>
P_da == Join(P_d, F_txt)
P_deb == Join(P_de, F_rpm)
StorageFiles == {P_f, P_fx, P_l, P_da, P_deb}
StorageDirs == {P_d, P_de}
Depths == {-1, 1}

NoOpts == ListOptions(-1, FALSE, {})

StorageCall(op, path, data, opts) == [op |-> op, path |-> path, data |-> data, opts |-> opts]

StorageCalls ==
    {StorageCall("Store", p, d, NoOpts) : p \in StorageFiles, d \in Payloads}
    \cup {StorageCall(op, p, <<>>, NoOpts) :
            op \in {"Get", "Delete", "Exists"}, p \in StorageFiles \cup StorageDirs}
    \cup {StorageCall("CreateDir", p, <<>>, NoOpts) : p \in StorageDirs}
    \cup {StorageCall("ListWithOptions", p, <<>>, ListOptions(m, i, x)) :
            p \in {<<>>, P_d}, m \in Depths, i \in BOOLEAN, x \in {{}, {Ext_rpm}}}

\* the backend be idle, before its first call
StorageIdle(be) ==
    [be |-> be, pc |-> "idle", op |-> "none", path |-> <<>>, data |-> <<>>, opts |-> NoOpts,
     ok |-> FALSE, err |-> "", out |-> <<>>, files |-> {}]

\* the call returns: its arguments and results stay visible until the next call
StorageReturn(ok, err, out, files) ==
    [st EXCEPT !.pc = "idle", !.ok = ok, !.err = err, !.out = out, !.files = files]

\* a caller invokes a method of the Storage interface
Storage_Call ==
    /\ st.pc = "idle"
    /\ \E c \in StorageCalls :
          st' = [StorageIdle(st.be) EXCEPT !.pc = "called", !.op = c.op, !.path = c.path,
                                           !.data = c.data, !.opts = c.opts]
    /\ UNCHANGED <<lfs, objs, repoTypes, repoConfigs, mu, th, hist, batch>>

Storage_Store ==
    /\ st.pc = "called" /\ st.op = "Store"
    /\ IF st.be = Local
         THEN LET r == LocalStore(lfs, st.path, st.data) IN
              /\ lfs' = r.fs
              /\ objs' = objs
              /\ st' = StorageReturn(r.ok, r.err, <<>>, {})
         ELSE /\ objs' = MinDBStore(objs, st.path, st.data)
              /\ lfs' = lfs
              /\ st' = StorageReturn(TRUE, "", <<>>, {})
    /\ UNCHANGED <<repoTypes, repoConfigs, mu, th, hist, batch>>

\* Get of either backend: [ok, data]; the reader os.Open returns for a
\* directory yields no bytes
StorageGet(be, fs, ob, path) ==
    IF be = Local
        THEN LET r == LocalGet(fs, path) IN [ok |-> r.ok /\ ~r.isDir, data |-> r.data]
        ELSE MinDBGet(ob, path)

Storage_Get ==
    /\ st.pc = "called" /\ st.op = "Get"
    /\ LET r == StorageGet(st.be, lfs, objs, st.path) IN
       st' = StorageReturn(r.ok, "", r.data, {})
    /\ UNCHANGED <<lfs, objs, repoTypes, repoConfigs, mu, th, hist, batch>>

Storage_Delete ==
    /\ st.pc = "called" /\ st.op = "Delete"
    /\ IF st.be = Local
         THEN LET r == LocalDelete(lfs, st.path) IN
              /\ lfs' = r.fs
              /\ objs' = objs
              /\ st' = StorageReturn(r.ok, r.err, <<>>, {})
         ELSE /\ objs' = MinDBDelete(objs, st.path)
              /\ lfs' = lfs
              /\ st' = StorageReturn(TRUE, "", <<>>, {})
    /\ UNCHANGED <<repoTypes, repoConfigs, mu, th, hist, batch>>

Storage_CreateDir ==
    /\ st.pc = "called" /\ st.op = "CreateDir"
    /\ IF st.be = Local
         THEN LET r == LocalCreateDir(lfs, st.path) IN
              /\ lfs' = r.fs
              /\ objs' = objs
              /\ st' = StorageReturn(r.ok, r.err, <<>>, {})
         ELSE /\ objs' = MinDBCreateDir(objs, st.path)
              /\ lfs' = lfs
              /\ st' = StorageReturn(TRUE, "", <<>>, {})
    /\ UNCHANGED <<repoTypes, repoConfigs, mu, th, hist, batch>>

\* Exists: ok is the boolean returned, err the error
Storage_Exists ==
    /\ st.pc = "called" /\ st.op = "Exists"
    /\ IF st.be = Local
         THEN LET r == LocalExists(lfs, st.path) IN st' = StorageReturn(r.exists, r.err, <<>>, {})
         ELSE st' = StorageReturn(MinDBExists(objs, st.path), "", <<>>, {})
    /\ UNCHANGED <<lfs, objs, repoTypes, repoConfigs, mu, th, hist, batch>>

\* ListWithOptions of either backend
StorageList(be, fs, ob, prefix, opts) ==
    IF be = Local THEN LocalListWithOptions(fs, prefix, opts)
    ELSE MinDBListWithOptions(ob, prefix, opts)

Storage_ListWithOptions ==
    /\ st.pc = "called" /\ st.op = "ListWithOptions"
    /\ st' = StorageReturn(TRUE, "", <<>>, StorageList(st.be, lfs, objs, st.path, st.opts))
    /\ UNCHANGED <<lfs, objs, repoTypes, repoConfigs, mu, th, hist, batch>>

InitStorage ==
    /\ \/ lfs \in {LinkedFS(TRUE), LinkedFS(FALSE)} /\ st = StorageIdle(Local)
       \/ lfs = EmptyFS /\ st = StorageIdle(S3)
    /\ objs = EmptyObjs
    /\ repoTypes = NoMap
    /\ repoConfigs = NoMap
    /\ mu = [w |-> NoThread, readers |-> {}]
    /\ th = [t \in Threads |-> Locals("done", "none", <<>>, <<>>, <<>>)]
    /\ hist = [n \in RepoNames |-> NoHist]
    /\ batch = NoBatch

NextStorage ==
    \/ Storage_Call
    \/ Storage_Store
    \/ Storage_Get
    \/ Storage_Delete
    \/ Storage_CreateDir
    \/ Storage_Exists
    \/ Storage_ListWithOptions

SpecStorage == InitStorage /\ [][NextStorage]_vars

-----------------------------------------------------------------------------
(* Properties of the Storage interface, either backend (SpecStorage)        *)

\* the step is the return of the Storage method op
StorageReturns(op) == st.pc = "called" /\ st.op = op /\ st'.pc = "idle"

\* nothing is stored under the path: no entry on disk, no object and no
\* object below it in the bucket
Absent(be, fs, ob, path) ==
    IF be = Local THEN ~Lstat(fs, Join(BasePath, path)).ok
    ELSE ~MinDBExists(ob, path)

\* C16: Delete of a path under which nothing is stored, because nothing ever
\* was or because it was deleted, returns no error, whatever the path and
\* the backend.
C16_DeleteIdempotent ==
    [][(StorageReturns("Delete") /\ Absent(st.be, lfs, objs, st.path))
          => st'.ok /\ lfs' = lfs /\ objs' = objs]_vars

\* C17: Store(p, P) that succeeds is followed by a Get(p) that returns exactly
\* P, in both backends, and a Store over a path that holds content succeeds:
\* the content is overwritten.
C17_StoreThenGet ==
    [][StorageReturns("Store")
          => /\ st'.ok => StorageGet(st.be, lfs', objs', st.path) = [ok |-> TRUE, data |-> st.data]
             /\ StorageGet(st.be, lfs, objs, st.path).ok => st'.ok]_vars

\* the file f of the root, which held one byte, was stored again with two
C17_Witness ==
    /\ st.be = Local /\ st.op = "Store" /\ st.pc = "idle" /\ st.ok
    /\ st.path = P_f /\ st.data = Payload2
    /\ lfs[Segs(Join(BasePath, P_f))].data = Payload2

\* the path names a symbolic link whose target does not exist
BrokenSymlink(fs, path) ==
    LET l == Lstat(fs, Join(BasePath, path)) IN
    /\ l.ok /\ KindAt(fs, l.path) = "link"
    /\ ~Stat(fs, Join(BasePath, path)).ok

\* C18: Exists of a symbolic link whose target is absent returns false and
\* no error.
C18_ExistsBrokenSymlink ==
    [][(StorageReturns("Exists") /\ st.be = Local /\ BrokenSymlink(lfs, st.path))
          => ~st'.ok /\ st'.err = ""]_vars

\* Exists(l) returned false while l is a link to the missing file outside
C18_Witness ==
    /\ st.be = Local /\ st.op = "Exists" /\ st.pc = "idle" /\ st.path = P_l
    /\ BrokenSymlink(lfs, P_l)
    /\ ~st.ok /\ st.err = ""

\* the names of the directory entries of a listing
DirNames(files) == {f.Name : f \in {g \in files : g.IsDir}}

\* the listing the same call returns without an extensions filter
Unfiltered(be, fs, ob, prefix, opts) ==
    StorageList(be, fs, ob, prefix, ListOptions(opts.MaxDepth, opts.IncludeDirs, {}))

\* C19: with includeDirs the listing holds the same directories whatever the
\* extensions filter, in both backends: the filter removes files only, and
\* only the files whose extension it does not allow.
C19_FilterKeepsDirs ==
    [][(StorageReturns("ListWithOptions") /\ st.opts.IncludeDirs)
          => /\ DirNames(st'.files) = DirNames(Unfiltered(st.be, lfs, objs, st.path, st.opts))
             /\ {f \in st'.files : ~f.IsDir}
                  = {f \in Unfiltered(st.be, lfs, objs, st.path, st.opts) :
                        ~f.IsDir /\ ExtAllowed(f.Name, st.opts.Extensions)}]_vars

\* the key prefix under which the bucket holds the objects of a directory
PrefixKey(prefix) == IF normalizePath(prefix) = <<>> THEN <<>> ELSE WithSlash(normalizePath(prefix))

\* the intermediate path segments, relative to the prefix, of an object key
Segments(key, np) ==
    LET pathParts == Split(TrimPrefix(key, np)) IN
    {JoinSegs(SubSeq(pathParts, 1, i)) : i \in 1..(Len(pathParts) - 1)} \ {<<>>}

\* C20: with includeDirs and no extensions filter, the listing of the object
\* store holds a directory entry for every intermediate path segment, within
\* the depth limit, of every object key under the prefix, with or without a
\* marker object for the segment.
C20_ImpliedDirs ==
    [][(/\ StorageReturns("ListWithOptions") /\ st.be = S3
        /\ st.opts.IncludeDirs /\ st.opts.Extensions = {})
          => \A key \in ListObjects(objs, PrefixKey(st.path)) :
               \A q \in Segments(key, PrefixKey(st.path)) :
                  shouldIncludeByDepth(PrefixKey(st.path) \o q \o Slash, PrefixKey(st.path),
                                       st.opts.MaxDepth)
                     => q \in DirNames(st'.files)]_vars

-----------------------------------------------------------------------------
(* The Storage factory and the Repo factory (pkg/storage, pkg/repo): the    *)
(* registrations made by the init functions of the packages and by other    *)
(* callers of Register, and RepoFactory.CreateRepo as app.Run calls it      *)
(* once the init functions have run.  st holds both registries, the         *)
(* Storage and Repo instances constructed so far and the last call.         *)

MaxInstances == 3

\* storageCtx{fn, labels}
storageCtx(fn, labels) == [fn |-> fn, labels |-> labels]

\* a Register that binds the tag anew on every call
StorageRegisterLast(factory, tag, fn, labels) == MapSet(factory, tag, storageCtx(fn, labels))

\* storage.Register
StorageRegister(factory, tag, fn, labels) ==
    IF tag \in DOMAIN factory THEN factory
    ELSE MapSet(factory, tag, storageCtx(fn, labels))

\* repo.Register
RepoRegister(factory, rt, repo) ==
    IF rt \in DOMAIN factory THEN factory
    ELSE MapSet(factory, rt, repo)

HasLabel(labels, label) == \E i \in 1..Len(labels) : labels[i] = label

NoStorage == [ok |-> FALSE, tag |-> "", fn |-> ""]

\* a CreateByLable that fails when no label matches
CreateByLableNoFallback(factory, label) ==
    LET match == {tag \in DOMAIN factory : HasLabel(factory[tag].labels, label)} IN
    IF match # {} THEN {[ok |-> TRUE, tag |-> tag, fn |-> factory[tag].fn] : tag \in match}
    ELSE {NoStorage}

\* storage.CreateByLable: the constructors it may call (the map is ranged
\* over in no fixed order), or the failure
CreateByLable(factory, label) ==
    LET match == {tag \in DOMAIN factory : HasLabel(factory[tag].labels, label)} IN
    IF match # {} THEN {[ok |-> TRUE, tag |-> tag, fn |-> factory[tag].fn] : tag \in match}
    ELSE IF Local \in DOMAIN factory
        THEN {[ok |-> TRUE, tag |-> Local, fn |-> factory[Local].fn]}
    ELSE {NoStorage}

\* a constructor that hands out the Storage built last
ConstructShared(storages, r) ==
    IF storages = <<>> THEN <<[tag |-> r.tag, fn |-> r.fn]>> ELSE storages

\* fn.fn(path): the constructor builds a Storage of its own
Construct(storages, r) == Append(storages, [tag |-> r.tag, fn |-> r.fn])

\* the Register calls of the init functions of the packages of the server
StorageInits ==
    {[tag |-> Local, fn |-> "NewLocalStorage", labels |-> <<RPM, DEB>>],
     [tag |-> S3, fn |-> "NewMinDBStorage", labels |-> <<Files>>]}
RepoInits ==
    {[rt |-> RPM, repo |-> "NewRPMRepo"], [rt |-> DEB, repo |-> "NewDEBRepo"],
     [rt |-> Files, repo |-> "NewFilesRepo"]}

\* Register calls of other packages, for tags the server registers too
StorageOthers ==
    {[tag |-> Local, fn |-> "NewMinDBStorage", labels |-> <<Files>>],
     [tag |-> S3, fn |-> "NewLocalStorage", labels |-> <<>>]}
RepoOthers ==
    {[rt |-> RPM, repo |-> "NewFilesRepo"], [rt |-> Files, repo |-> "NewRPMRepo"]}

InitFns == {a.fn : a \in StorageInits} \cup {a.repo : a \in RepoInits}

FactoryCall(op, stag, rtype, fn, labels, ok, storage) ==
    [op |-> op, stag |-> stag, rtype |-> rtype, fn |-> fn, labels |-> labels,
     ok |-> ok, storage |-> storage]

\* the process before any init function has run
NoFactory ==
    [sfactory |-> <<>>, rfactory |-> <<>>, inited |-> {}, storages |-> <<>>, repos |-> <<>>,
     fstorage |-> 0, call |-> FactoryCall("none", "", <<>>, "", <<>>, FALSE, 0)]

Factory_StorageRegister ==
    /\ \E a \in StorageInits \cup StorageOthers :
          /\ a \in StorageInits => a.fn \notin st.inited
          /\ st' = [st EXCEPT !.sfactory = StorageRegister(@, a.tag, a.fn, a.labels),
                              !.inited = IF a \in StorageInits THEN @ \cup {a.fn} ELSE @,
                              !.call = FactoryCall("storage.Register", a.tag, <<>>, a.fn,
                                                   a.labels, TRUE, 0)]
    /\ UNCHANGED <<lfs, objs, repoTypes, repoConfigs, mu, th, hist, batch>>

Factory_RepoRegister ==
    /\ \E a \in RepoInits \cup RepoOthers :
          /\ a \in RepoInits => a.repo \notin st.inited
          /\ st' = [st EXCEPT !.rfactory = RepoRegister(@, a.rt, a.repo),
                              !.inited = IF a \in RepoInits THEN @ \cup {a.repo} ELSE @,
                              !.call = FactoryCall("repo.Register", "", a.rt, a.repo,
                                                   <<>>, TRUE, 0)]
    /\ UNCHANGED <<lfs, objs, repoTypes, repoConfigs, mu, th, hist, batch>>

\* storage.CreateByLable(path, label)
Factory_CreateByLable ==
    /\ st.inited = InitFns
    /\ Len(st.storages) < MaxInstances
    /\ \E label \in {RPM, DEB, Files, T_zip} : \E r \in CreateByLable(st.sfactory, label) :
          LET storages == IF r.ok THEN Construct(st.storages, r) ELSE st.storages IN
          st' = [st EXCEPT !.storages = storages,
                           !.call = FactoryCall("CreateByLable", r.tag, label, r.fn, <<>>, r.ok,
                                                IF r.ok THEN Len(storages) ELSE 0)]
    /\ UNCHANGED <<lfs, objs, repoTypes, repoConfigs, mu, th, hist, batch>>

\* RepoFactory.CreateRepo(repoType)
Factory_CreateRepo ==
    /\ st.inited = InitFns
    /\ Len(st.storages) < MaxInstances
    /\ \E repoType \in {RPM, DEB, Files, T_zip} :
       \E r \in CreateByLable(st.sfactory, repoType) :
          LET storages == IF r.ok THEN Construct(st.storages, r) ELSE st.storages
              s == IF r.ok THEN Len(storages) ELSE st.fstorage
              ok == r.ok /\ repoType \in DOMAIN st.rfactory
          IN  st' = [st EXCEPT !.storages = storages,
                               !.fstorage = s,
                               !.repos = IF ok
                                           THEN Append(@, [fn |-> st.rfactory[repoType],
                                                           rt |-> repoType, storage |-> s])
                                           ELSE @,
                               !.call = FactoryCall("CreateRepo", r.tag, repoType,
                                                    IF ok THEN st.rfactory[repoType] ELSE "",
                                                    <<>>, ok, IF ok THEN s ELSE 0)]
    /\ UNCHANGED <<lfs, objs, repoTypes, repoConfigs, mu, th, hist, batch>>

InitFactory ==
    /\ lfs = EmptyFS
    /\ objs = EmptyObjs
    /\ repoTypes = NoMap
    /\ repoConfigs = NoMap
    /\ mu = [w |-> NoThread, readers |-> {}]
    /\ th = [t \in Threads |-> Locals("done", "none", <<>>, <<>>, <<>>)]
    /\ hist = [n \in RepoNames |-> NoHist]
    /\ st = NoFactory
    /\ batch = NoBatch

NextFactory ==
    \/ Factory_StorageRegister
    \/ Factory_RepoRegister
    \/ Factory_CreateByLable
    \/ Factory_CreateRepo

SpecFactory == InitFactory /\ [][NextFactory]_vars

-----------------------------------------------------------------------------
(* Properties of the factories (SpecFactory)                                *)

\* C21: in both factories a Register call binds a tag that is not bound to
\* the constructor (and labels) it is given, and leaves every binding that
\* exists as it is; the call cannot fail.
C21_FirstRegistrationWins ==
    [][/\ \A tag \in DOMAIN st.sfactory :
             tag \in DOMAIN st'.sfactory /\ st'.sfactory[tag] = st.sfactory[tag]
       /\ \A rt \in DOMAIN st.rfactory :
             rt \in DOMAIN st'.rfactory /\ st'.rfactory[rt] = st.rfactory[rt]
       /\ st'.call.op = "storage.Register"
             => /\ st'.call.ok
                /\ st'.call.stag \in DOMAIN st'.sfactory
                /\ st'.call.stag \notin DOMAIN st.sfactory
                      => st'.sfactory[st'.call.stag] = storageCtx(st'.call.fn, st'.call.labels)
       /\ st'.call.op = "repo.Register"
             => /\ st'.call.ok
                /\ st'.call.rtype \in DOMAIN st'.rfactory
                /\ st'.call.rtype \notin DOMAIN st.rfactory
                      => st'.rfactory[st'.call.rtype] = st'.call.fn]_vars

\* a second registration of the local tag, with another constructor, returned
\* and the tag is bound to the first
C21_Witness ==
    /\ st.call.op = "storage.Register" /\ st.call.stag = Local
    /\ st.call.fn = "NewMinDBStorage"
    /\ st.sfactory[Local] = storageCtx("NewLocalStorage", <<RPM, DEB>>)

\* the tags whose registered label set contains the label
Labelled(factory, label) == {tag \in DOMAIN factory : HasLabel(factory[tag].labels, label)}

C30_OwnStorage ==
    /\ "repos" \in DOMAIN st =>
          \A i, j \in DOMAIN st.repos : i # j => st.repos[i].storage # st.repos[j].storage

\* an RPM and a DEB Repo, each with a Storage of the local backend
C30_Witness ==
    /\ "repos" \in DOMAIN st
    /\ \E i, j \in DOMAIN st.repos :
          /\ st.repos[i].rt = RPM /\ st.repos[j].rt = DEB
          /\ st.storages[st.repos[i].storage].tag = Local
          /\ st.storages[st.repos[j].storage] = st.storages[st.repos[i].storage]
          /\ st.repos[i].storage # st.repos[j].storage

-----------------------------------------------------------------------------
(* Properties of the service under administration and read load (Spec),     *)
(* continued                                                                 *)

\* goroutine t leaves the type switch of CreateRepo
LeavesSwitch(t) == th[t].op = "CreateRepo" /\ th[t].pc = "parse" /\ th'[t].pc # "parse"

\* the call returned an unsupported-type error and changed nothing
Rejected(t) ==
    /\ th'[t].pc = "done" /\ th'[t].res = "Unsupported"
    /\ lfs' = lfs /\ objs' = objs /\ repoTypes' = repoTypes /\ repoConfigs' = repoConfigs

\* C23 as stated: CreateRepo with a type string other than "rpm", "deb" and
\* "files" fails with the unsupported-type error, creates nothing in storage
\* and leaves repoTypes as it is.
C23_UnknownTypeString ==
    [][\A t \in Threads :
          (LeavesSwitch(t) /\ th[t].ts \notin {RPM, DEB, Files}) => Rejected(t)]_vars

\* C23: CreateRepo with a type string that is none of "rpm", "deb" and
\* "files" once lower-cased fails with the unsupported-type error, creates
\* nothing in storage and leaves repoTypes as it is.
C23_UnknownType ==
    [][\A t \in Threads :
          (LeavesSwitch(t) /\ ToLower(th[t].ts) \notin {RPM, DEB, Files}) => Rejected(t)]_vars

\* CreateRepo returned the unsupported-type error while the name is memoized
C23_Witness ==
    /\ th[1].op = "CreateRepo" /\ th[1].pc = "done" /\ th[1].res = "Unsupported"
    /\ N_a \in DOMAIN repoTypes

-----------------------------------------------------------------------------
(* utils.IsValidRepoName (internal/utils), applied to names put together    *)
(* from a few characters and long runs of one character                     *)

MaxNameLen == 256
MaxSegmentLen == 50
MaxPieces == 3

Uppers ==
    {"A", "B", "C", "D", "E", "F", "G", "H", "I", "J", "K", "L", "M", "N", "O", "P", "Q", "R",
     "S", "T", "U", "V", "W", "X", "Y", "Z"}
Digits == {"0", "1", "2", "3", "4", "5", "6", "7", "8", "9"}

\* [a-zA-Z0-9_/-] and [a-zA-Z0-9_-]
NameChars == Uppers \cup {Lower(c) : c \in Uppers} \cup Digits \cup {"_", "/", "-"}
SegmentChars == NameChars \ {"/"}

\* regexp.MatchString of ^[class]+$: the whole text, at least one character
MatchString(class, s) == s # <<>> /\ \A i \in 1..Len(s) : s[i] \in class

\* strings.Contains
Contains(s, sub) == \E i \in 1..(Len(s) - Len(sub) + 1) : SubSeq(s, i, i + Len(sub) - 1) = sub

\* the loop over the segments of the name
ValidSegments(segments) ==
    \A i \in 1..Len(segments) :
        /\ ~(Len(segments[i]) = 0 \/ Len(segments[i]) > MaxSegmentLen)
        /\ MatchString(SegmentChars, segments[i])

\* a validation that does not look at the segments
IsValidRepoNameWhole(name) ==
    IF ~MatchString(NameChars, name) \/ Len(name) = 0 \/ Len(name) > MaxNameLen THEN FALSE
    ELSE IF HasPrefix(name, Slash) \/ HasSuffix(name, Slash) THEN FALSE
    ELSE ~Contains(name, <<"/", "/">>)

IsValidRepoName(name) ==
    IF ~MatchString(NameChars, name) \/ Len(name) = 0 \/ Len(name) > MaxNameLen THEN FALSE
    ELSE IF HasPrefix(name, Slash) \/ HasSuffix(name, Slash) THEN FALSE
    ELSE IF Contains(name, <<"/", "/">>) THEN FALSE
    ELSE ValidSegments(Split(name))

\* strings.Repeat("a", n)
Run(n) == [i \in 1..n |-> "a"]

\* the names: nothing, a segment one short of the longest, or five segments
\* of the longest length, followed by up to MaxPieces characters
Pieces == {"a", "Z", "9", "_", "-", "/", "@", " "}
RECURSIVE Tails(_)
Tails(n) == IF n = 0 THEN {<<>>} ELSE Tails(n - 1) \cup {Append(t, c) : t \in Tails(n - 1), c \in Pieces}
Heads ==
    {<<>>, Run(MaxSegmentLen - 1),
     Run(MaxSegmentLen) \o Slash \o Run(MaxSegmentLen) \o Slash \o Run(MaxSegmentLen) \o Slash
        \o Run(MaxSegmentLen) \o Slash \o Run(MaxSegmentLen) \o Slash}
Names == {h \o t : h \in Heads, t \in Tails(MaxPieces)}

\* the handler validates the name it was sent
Names_Validate ==
    /\ st.pc = "input"
    /\ st' = [st EXCEPT !.pc = "done", !.valid = IsValidRepoName(st.name)]
    /\ UNCHANGED <<lfs, objs, repoTypes, repoConfigs, mu, th, hist, batch>>

InitNames ==
    /\ lfs = EmptyFS
    /\ objs = EmptyObjs
    /\ repoTypes = NoMap
    /\ repoConfigs = NoMap
    /\ mu = [w |-> NoThread, readers |-> {}]
    /\ th = [t \in Threads |-> Locals("done", "none", <<>>, <<>>, <<>>)]
    /\ hist = [n \in RepoNames |-> NoHist]
    /\ \E name \in Names : st = [pc |-> "input", name |-> name, valid |-> FALSE]
    /\ batch = NoBatch

NextNames == Names_Validate

SpecNames == InitNames /\ [][NextNames]_vars

\* the positions at which a segment of the name starts, and the segment
SegmentStarts(name) == {i \in 1..Len(name) : name[i] # "/" /\ (i = 1 \/ name[i - 1] = "/")}
SegmentLen(name, i) ==
    IF \E k \in i..Len(name) : name[k] = "/"
        THEN (CHOOSE k \in i..Len(name) : name[k] = "/" /\ \A m \in i..(k - 1) : name[m] # "/") - i
        ELSE Len(name) - i + 1

\* C24: IsValidRepoName(name) is true exactly when the name has 1 to 256
\* characters, all of [a-zA-Z0-9_/-], neither starts nor ends with "/", holds
\* no "//", and each of its segments has 1 to 50 characters.
C24_ValidRepoName ==
    ("valid" \in DOMAIN st /\ st.pc = "done") =>
        (st.valid <=>
            /\ Len(st.name) \in 1..MaxNameLen
            /\ \A i \in 1..Len(st.name) : st.name[i] \in NameChars
            /\ st.name[1] # "/" /\ st.name[Len(st.name)] # "/"
            /\ \A i \in 1..(Len(st.name) - 1) : ~(st.name[i] = "/" /\ st.name[i + 1] = "/")
            /\ \A i \in SegmentStarts(st.name) : SegmentLen(st.name, i) \in 1..MaxSegmentLen)

\* a name of 256 characters in six segments was found valid
C24_Witness ==
    /\ "valid" \in DOMAIN st /\ st.pc = "done" /\ st.valid
    /\ Len(st.name) = MaxNameLen
    /\ Cardinality(SegmentStarts(st.name)) = 6

(***************************************************************************)
(* MemoryCache (package cache, src/internal/log/log.go 127-224).           *)
(* time.Now().UnixNano() is the logical clock st.now; every method holds   *)
(* c.mu for its whole body, so each method is one atomic step.             *)
(***************************************************************************)

\* Last instant of the logical clock.
MaxTime == 5

\* Largest ttl passed to Set.
MaxTTL == 2

CacheKeys == {"k1", "k2"}

CacheValues == {"v1", "v2"}

TTLs == 0..MaxTTL

\* The nil interface value.
Nil == "nil"

\* What Get returns.
GetResult(value, ok) == [value |-> value, ok |-> ok]

cacheItem(value, expiration) == [value |-> value, expiration |-> expiration]

\* A key that is not in c.items.
NoItem == [value |-> Nil, expiration |-> -1]

NoItems == [k \in CacheKeys |-> NoItem]

\* Get that trusts the map and never looks at the expiration.
MemoryCacheGetStale(items, key, now) ==
    IF items[key] = NoItem THEN GetResult(Nil, FALSE)
    ELSE GetResult(items[key].value, TRUE)

MemoryCacheGet(items, key, now) ==
    IF items[key] = NoItem THEN GetResult(Nil, FALSE)
    ELSE IF items[key].expiration > 0 /\ now > items[key].expiration
         THEN GetResult(Nil, FALSE)
         ELSE GetResult(items[key].value, TRUE)

MemoryCacheSet(items, key, value, ttl, now) ==
    [items EXCEPT ![key] = cacheItem(value, IF ttl > 0 THEN now + ttl ELSE 0)]

MemoryCacheDelete(items, key) == [items EXCEPT ![key] = NoItem]

MemoryCacheCleanup(items, now) ==
    [k \in CacheKeys |->
        IF items[k] # NoItem /\ items[k].expiration > 0 /\ now > items[k].expiration
        THEN NoItem ELSE items[k]]

\* The latest write to a key: the arguments and the instant of the latest
\* Set, live until a Delete or Clear.
Written(live, value, at, ttl) == [live |-> live, value |-> value, at |-> at, ttl |-> ttl]

NeverWritten == Written(FALSE, Nil, 0, 0)

CacheCall(op, key, at, res) == [op |-> op, key |-> key, at |-> at, res |-> res]

NoCache ==
    [items |-> NoItems, now |-> 1,
     written |-> [k \in CacheKeys |-> NeverWritten],
     call |-> CacheCall("none", "k1", 1, GetResult(Nil, FALSE))]

CacheFrame == UNCHANGED <<lfs, objs, repoTypes, repoConfigs, mu, th, hist, batch>>

Cache_Set ==
    /\ \E k \in CacheKeys, v \in CacheValues, ttl \in TTLs :
          st' = [st EXCEPT !.items = MemoryCacheSet(st.items, k, v, ttl, st.now),
                           !.written[k] = Written(TRUE, v, st.now, ttl),
                           !.call = CacheCall("Set", k, st.now, GetResult(Nil, FALSE))]
    /\ CacheFrame

Cache_Get ==
    /\ \E k \in CacheKeys :
          st' = [st EXCEPT !.call = CacheCall("Get", k, st.now,
                                              MemoryCacheGet(st.items, k, st.now))]
    /\ CacheFrame

Cache_Delete ==
    /\ \E k \in CacheKeys :
          st' = [st EXCEPT !.items = MemoryCacheDelete(st.items, k),
                           !.written[k] = NeverWritten,
                           !.call = CacheCall("Delete", k, st.now, GetResult(Nil, FALSE))]
    /\ CacheFrame

Cache_Clear ==
    /\ st' = [st EXCEPT !.items = NoItems,
                        !.written = [k \in CacheKeys |-> NeverWritten],
                        !.call = CacheCall("Clear", "k1", st.now, GetResult(Nil, FALSE))]
    /\ CacheFrame

\* One firing of the ticker in the cleanup goroutine.
Cache_cleanup ==
    /\ st' = [st EXCEPT !.items = MemoryCacheCleanup(st.items, st.now),
                        !.call = CacheCall("cleanup", "k1", st.now, GetResult(Nil, FALSE))]
    /\ CacheFrame

\* The clock advances.
Cache_Tick ==
    /\ st.now < MaxTime
    /\ st' = [st EXCEPT !.now = st.now + 1]
    /\ CacheFrame

InitCache ==
    /\ lfs = EmptyFS
    /\ objs = EmptyObjs
    /\ repoTypes = NoMap
    /\ repoConfigs = NoMap
    /\ mu = [w |-> NoThread, readers |-> {}]
    /\ th = [t \in Threads |-> Locals("done", "none", <<>>, <<>>, <<>>)]
    /\ hist = [n \in RepoNames |-> NoHist]
    /\ st = NoCache
    /\ batch = NoBatch

NextCache ==
    \/ Cache_Set
    \/ Cache_Get
    \/ Cache_Delete
    \/ Cache_Clear
    \/ Cache_cleanup
    \/ Cache_Tick

SpecCache == InitCache /\ [][NextCache]_vars

\* The key of the last call was last written by Set with a positive ttl.
SetWithTTL == st.written[st.call.key].live /\ st.written[st.call.key].ttl > 0

\* The instant at which the entry of the last call's key expires.
Deadline == st.written[st.call.key].at + st.written[st.call.key].ttl

\* C25: after Set(k, v, ttl) with ttl > 0 and until k is written again, a
\* Get(k) made before the ttl has run out returns (v, true), and a Get(k)
\* made after it has run out returns (nil, false), whether the cleanup
\* goroutine has swept the map in between or not.
C25_GetUntilTTL ==
    ("items" \in DOMAIN st /\ st.call.op = "Get" /\ SetWithTTL) =>
        IF st.call.at <= Deadline
        THEN st.call.res = GetResult(st.written[st.call.key].value, TRUE)
        ELSE st.call.res = GetResult(Nil, FALSE)

\* A Get after the ttl ran out, with the expired entry still in the map.
C25_Witness ==
    /\ "items" \in DOMAIN st
    /\ st.call.op = "Get"
    /\ SetWithTTL
    /\ st.call.at > Deadline
    /\ st.items[st.call.key] # NoItem
    /\ st.call.res = GetResult(Nil, FALSE)

-----------------------------------------------------------------------------
(* The lock discipline of the service maps                                   *)

\* The step writes s.repoTypes or s.repoConfigs.
MapWrite == repoTypes' # repoTypes \/ repoConfigs' # repoConfigs

\* Some goroutine holds s.mu in write mode: it owns the writer mutex and the
\* readers have left.
WriteLocked == \E t \in Threads : LockFree(t)

\* C26: every write of repoTypes and repoConfigs happens while s.mu is held
\* in write mode, so that no write overlaps another access to the maps.
C26_WritesUnderWriteLock == [][MapWrite => WriteLocked]_vars

\* The step is the assignment s.repoTypes[repoName] = repoType of ListRepos.
ListReposWrites(t) == th[t].pc = "lr_write" /\ th'[t].pc # "lr_write"

\* The step is the return of ListRepos.
ListReposReturns(t) ==
    th[t].pc = "lr_scan" /\ th'[t].pc = "done" /\ th[t].op = "ListRepos"

\* C29: ListRepos leaves every name it returns memoized, and its writes of
\* the memo never change the value of an entry that already existed.
C29_BackFill ==
    [][\A t \in Threads :
          /\ ListReposReturns(t) => th'[t].names \subseteq DOMAIN repoTypes'
          /\ ListReposWrites(t) =>
                \A n \in DOMAIN repoTypes :
                    n \in DOMAIN repoTypes' /\ repoTypes'[n] = repoTypes[n]]_vars

-----------------------------------------------------------------------------
(* The Repo-level calls of the service as intervals: a handler enters the    *)
(* call of its Repo instance holding what it locked and leaves it with the   *)
(* deferred unlock                                                           *)

\* RefreshMetadata calling its Repo instance without s.mu.Lock()
LockModeRefreshUnlocked(op) ==
    IF op = "UploadPackage" THEN "w"
    ELSE IF op = "DownloadPackage" THEN "r"
    ELSE "none"

\* what a handler holds while it calls its Repo instance: s.mu.Lock() in
\* UploadPackage and RefreshMetadata, s.mu.RLock() in DownloadPackage, nothing
\* in DownloadPackageFiles
LockMode(op) ==
    IF op \in {"UploadPackage", "RefreshMetadata"} THEN "w"
    ELSE IF op = "DownloadPackage" THEN "r"
    ELSE "none"

\* the requests that reach a Repo instance
RepoLevelCalls ==
    {Request("UploadPackage", n, f, <<>>) : n \in RepoNames, f \in {F_rpm, F_txt}}
    \cup {Request(op, n, F_txt, <<>>) : op \in {"DownloadPackage", "DownloadPackageFiles"},
                                        n \in RepoNames}
    \cup {Request("RefreshMetadata", n, <<>>, <<>>) : n \in RepoNames}

\* a request arrives; DownloadPackageFiles goes to s.repos[repo.Files] without
\* getRepoInstance
CallService(t) ==
    /\ th[t].pc = "done"
    /\ \E c \in RepoLevelCalls :
          /\ c.op = "RefreshMetadata" => Now(lfs) <= MaxRefreshes
          /\ th' = [th EXCEPT ![t] =
                      IF c.op = "DownloadPackageFiles"
                         THEN [Locals("files", c.op, c.name, c.file, c.ts) EXCEPT !.rt = Files]
                         ELSE Locals(Entry(c.op), c.op, c.name, c.file, c.ts)]
    /\ UNCHANGED <<lfs, objs, repoTypes, repoConfigs, mu, hist, st, batch>>

\* the handler between getRepoInstance and the call of the Repo instance:
\* the file type check of UploadPackage, then s.mu.Lock() or s.mu.RLock()
Handler_Acquire(t) ==
    /\ th[t].pc \in {"w_lock", "r_rlock", "files"}
    /\ IF th[t].op = "UploadPackage" /\ validateFileType(th[t].file, th[t].rt) # "ok"
          THEN /\ th' = Return(t, validateFileType(th[t].file, th[t].rt))
               /\ mu' = mu
       ELSE IF LockMode(th[t].op) = "w"
          THEN /\ mu.w = NoThread
               /\ mu' = LockPending(t)
               /\ th' = [th EXCEPT ![t].pc = "w_wait"]
       ELSE IF LockMode(th[t].op) = "r"
          THEN /\ RLockFree
               /\ mu' = RLock(t)
               /\ th' = [th EXCEPT ![t].pc = "call"]
          ELSE /\ mu' = mu
               /\ th' = [th EXCEPT ![t].pc = "call"]
    /\ UNCHANGED <<lfs, objs, repoTypes, repoConfigs, hist, st, batch>>

\* s.mu.Lock() returns: the readers have left
Handler_Enter(t) ==
    /\ th[t].pc = "w_wait"
    /\ LockFree(t)
    /\ th' = [th EXCEPT ![t].pc = "call"]
    /\ UNCHANGED <<lfs, objs, repoTypes, repoConfigs, mu, hist, st, batch>>

\* the deferred Unlock or RUnlock of the handler of goroutine t
Release(t) ==
    IF LockMode(th[t].op) = "w" THEN Unlock
    ELSE IF LockMode(th[t].op) = "r" THEN RUnlock(t)
    ELSE mu

\* repoInstance.UploadPackage returns
UploadPackage_Return(t) ==
    /\ th[t].pc = "call" /\ th[t].op = "UploadPackage"
    /\ \E o \in WithIOError(RepoUploadPackage(th[t].rt, th[t].name, th[t].file, th[t].data),
                            th[t].rt, "StoreFailed") :
          /\ lfs' = o.lfs
          /\ objs' = o.objs
          /\ th' = Return(t, o.err)
    /\ mu' = Release(t)
    /\ UNCHANGED <<repoTypes, repoConfigs, hist, st, batch>>

\* repoInstance.RefreshMetadata returns
RefreshMetadata_Return(t) ==
    /\ th[t].pc = "call" /\ th[t].op = "RefreshMetadata"
    /\ \E o \in IF th[t].rt = RPM
                  THEN WithIOError(RepoRefreshMetadata(th[t].rt, th[t].name), th[t].rt, "MetadataFailed")
                  ELSE {Outcome(RepoRefreshMetadata(th[t].rt, th[t].name), th[t].rt)} :
          /\ lfs' = o.lfs
          /\ objs' = o.objs
          /\ th' = Return(t, o.err)
    /\ mu' = Release(t)
    /\ UNCHANGED <<repoTypes, repoConfigs, hist, st, batch>>

\* repoInstance.DownloadPackage returns, in DownloadPackage and in
\* DownloadPackageFiles
DownloadPackage_Return(t) ==
    /\ th[t].pc = "call" /\ th[t].op \in {"DownloadPackage", "DownloadPackageFiles"}
    /\ LET f == RepoDownloadPackage(th[t].rt, th[t].name, th[t].file) IN
       th' = ReturnOut(t, IF f.ok THEN "ok" ELSE "GetFailed", f.data)
    /\ mu' = Release(t)
    /\ UNCHANGED <<lfs, objs, repoTypes, repoConfigs, hist, st, batch>>

NextOverlap ==
    \E t \in Threads :
        \/ CallService(t)
        \/ getRepoInstance_Read(t)
        \/ getRepoInstance_Infer(t)
        \/ Lock_Request(t)
        \/ getRepoInstance_Write(t)
        \/ getRepoInstance_Return(t)
        \/ Handler_Acquire(t)
        \/ Handler_Enter(t)
        \/ UploadPackage_Return(t)
        \/ RefreshMetadata_Return(t)
        \/ DownloadPackage_Return(t)

SpecOverlap == Init /\ [][NextOverlap]_vars

\* goroutine t is inside the Repo-level call of the operation op on a name
InRepoCall(t, op, name) == th[t].pc = "call" /\ th[t].op = op /\ th[t].name = name

\* a refresh of a repository executes its Repo-level refresh while an upload
\* to the same repository is inside its Repo-level write
RefreshDuringUpload ==
    \E t, u \in Threads, n \in RepoNames :
        InRepoCall(t, "UploadPackage", n) /\ InRepoCall(u, "RefreshMetadata", n)

\* goroutine u has resolved the instance for a refresh of the repository and
\* stands before its s.mu.Lock() while t is inside an upload to it
RefreshMeetsUpload(t, u) ==
    /\ th[t].pc = "call" /\ th[t].op = "UploadPackage"
    /\ th[u].pc = "w_lock" /\ th[u].op = "RefreshMetadata"
    /\ th[u].name = th[t].name

\* C27 as stated: RefreshMetadata is not mutually exclusive with
\* UploadPackage, so a refresh that arrives while an upload to the same
\* repository is inside its Repo-level write is not kept out and goes on to
\* its own Repo-level call during that write.
C27_RefreshNotExcluded ==
    \A t, u \in Threads : RefreshMeetsUpload(t, u) => ENABLED Handler_Acquire(u)

\* C27 amended: RefreshMetadata and UploadPackage are mutually exclusive: no
\* refresh of a repository executes its Repo-level refresh while an upload
\* to that repository is between the start and the end of its Repo-level
\* write.
C27_RefreshExcludesUpload == ~RefreshDuringUpload

\* a refresh that arrived during the Repo-level write of an upload
C27_Witness == \E t, u \in Threads : RefreshMeetsUpload(t, u)

\* C28: Repo.UploadPackage is invoked only under the write lock, and while a
\* Repo-level upload runs no other goroutine is inside a Repo-level call.
C28_UploadAlone ==
    \A t \in Threads :
        (th[t].pc = "call" /\ th[t].op = "UploadPackage") =>
            /\ LockFree(t)
            /\ \A u \in Threads \ {t} : th[u].pc # "call"

-----------------------------------------------------------------------------
(* The handlers registered by app.Run                                        *)

\* goroutine t has returned from the service method op
Returned(t, op) == th[t].pc = "done" /\ th[t].op = op

\* C31: s.repos holds one Repo instance for each of RPM, DEB and Files, so
\* CreateRepo with a type string the switch accepts never fails with "no
\* handler for repository type".
C31_HandlerForEveryType ==
    \A t \in Threads : Returned(t, "CreateRepo") => th[t].res # "NoHandler"

\* C36: every type stored in repoTypes has an instance in s.repos, so that
\* resolving a memoized name never fails with "no handler for repository
\* type".
C36_MemoizedTypesHandled ==
    /\ \A n \in DOMAIN repoTypes : repoTypes[n] \in Registered
    /\ \A t \in Threads :
          (th[t].pc = "done" /\ th[t].op \in GriOps) => th[t].res # "NoHandler"

\* the positions at which a goroutine waits to write the type it inferred
InferredWrite == {"gri_wait", "grt_wait"}

\* goroutine u writes the type it inferred in this step
WritesInferred(u) == th[u].pc \in InferredWrite /\ th'[u].pc \notin InferredWrite

\* C32: after a successful DeleteRepo(name), and until the next explicit call
\* on the name, an inference writes repoTypes[name] only when its operation
\* started after the delete returned: an inference that was under way when
\* the delete completed does not put the evicted entry back.
C32_NoStaleReinsert ==
    [][\A u \in Threads :
          /\ WritesInferred(u)
          /\ hist[th[u].name].ph = "deleted"
          /\ th[u].name \notin DOMAIN repoTypes
          => ~th[u].stale]_vars

-----------------------------------------------------------------------------
(* The service while every goroutine changes repositories                    *)

\* the requests that create, fill and delete a repository
AdminCalls ==
    {Request("UploadPackage", n, f, <<>>) : n \in RepoNames, f \in {F_rpm, F_txt}}
    \cup {Request("DeleteRepo", n, <<>>, <<>>) : n \in RepoNames}
    \cup {Request("CreateRepo", n, <<>>, ts) : n \in RepoNames, ts \in {RPM, Files}}

CallAdmin(t) ==
    /\ th[t].pc = "done"
    /\ \E c \in AdminCalls : Start(t, c)
    /\ UNCHANGED <<lfs, objs, repoTypes, repoConfigs, mu, hist, st, batch>>

NextAdmin ==
    \E t \in Threads :
        \/ CallAdmin(t)
        \/ getRepoInstance_Read(t)
        \/ getRepoInstance_Infer(t)
        \/ Lock_Request(t)
        \/ getRepoInstance_Write(t)
        \/ getRepoInstance_Return(t)
        \/ Handler_Lock(t)
        \/ UploadPackage(t)
        \/ DeleteRepo(t)
        \/ Parse(t)
        \/ CreateRepo(t)

SpecAdmin == Init /\ [][NextAdmin]_vars

\* C33: an UploadPackage(name, ...) that was under way when a DeleteRepo(name)
\* returned success, and that returns before the next explicit call on the
\* name, fails and writes nothing: no package bytes are stored under the
\* deleted name.
C33_UploadAfterDelete ==
    [][\A t \in Threads :
          /\ Returns(t, "UploadPackage")
          /\ th[t].stale
          /\ hist[th[t].name].ph = "deleted"
          => th'[t].res # "ok" /\ lfs' = lfs /\ objs' = objs]_vars

-----------------------------------------------------------------------------
(* The service under mixed load: every goroutine serves any request          *)

MixedCalls ==
    {Request("UploadPackage", n, F_rpm, <<>>) : n \in RepoNames}
    \cup {Request("DeleteRepo", n, <<>>, <<>>) : n \in RepoNames}
    \cup {Request("CreateRepo", n, <<>>, RPM) : n \in RepoNames}
    \cup ReadCalls

CallMixed(t) ==
    /\ th[t].pc = "done"
    /\ \E c \in MixedCalls : Start(t, c)
    /\ UNCHANGED <<lfs, objs, repoTypes, repoConfigs, mu, hist, st, batch>>

\* a step of the handler of goroutine t
HandlerStep(t) ==
    \/ getRepoInstance_Read(t)
    \/ getRepoInstance_Infer(t)
    \/ Lock_Request(t)
    \/ getRepoInstance_Write(t)
    \/ getRepoInstance_Return(t)
    \/ Handler_Lock(t)
    \/ UploadPackage(t)
    \/ DeleteRepo(t)
    \/ Parse(t)
    \/ CreateRepo(t)
    \/ DownloadPackage(t)
    \/ GetRepoType_Read(t)
    \/ GetRepoType_Infer(t)
    \/ GetRepoType_Write(t)
    \/ ListRepos_RLock(t)
    \/ ListRepos_Scan(t)
    \/ ListRepos_Check(t)
    \/ ListRepos_Write(t)

NextMixed == \E t \in Threads : CallMixed(t) \/ HandlerStep(t)

SpecMixed == Init /\ [][NextMixed]_vars

\* goroutine t holds s.mu, for reading or for writing
Holds(t) == t \in mu.readers \/ mu.w = t

\* the positions at which the next statement is s.mu.RLock(), s.mu.Lock() and
\* the return of s.mu.Lock()
AtRLock == {"gri_rlock", "gri_rlock2", "r_rlock", "grt_rlock", "lr_rlock"}
AtLock == {"gri_lock", "grt_lock", "w_lock", "parse"}
InLock == {"gri_wait", "grt_wait", "w_wait"}

\* goroutine t is inside a handler and cannot take its next step: it waits
\* for s.mu
Blocked(t) ==
    \/ th[t].pc \in AtRLock /\ ~RLockFree
    \/ th[t].pc \in AtLock /\ mu.w # NoThread
    \/ th[t].pc \in InLock /\ ~LockFree(t)

\* the goroutines inside a handler
Busy == {t \in Threads : th[t].pc # "done"}

StepsUnblocked ==
    [][\A t \in Threads : (th[t].pc # "done" /\ th'[t].pc # th[t].pc) => ~Blocked(t)]_vars

-----------------------------------------------------------------------------
(* The Repo instances called directly: CreateRepo and ListRepos              *)

N_ab == <<"a", "/", "b">>

\* the repository names created
CreatedNames == {N_a, N_ab}

DEBCreateRepo(fs, repoName) ==
    LET a == LocalCreateDir(fs, repoName) IN
    IF a.ok THEN RepoOk(a.fs) ELSE RepoErr(a.fs, "CreateFailed")

\* DEBRepo.ListRepos: the listing is asked with MaxDepth -1 only, IncludeDirs
\* keeps its zero value
DEBListRepos(fs) ==
    LET files == LocalListWithOptions(fs, <<>>, ListOptions(-1, FALSE, {})) IN
    {f.Name : f \in {g \in files : g.IsDir}}

\* the RPM and the DEB repo store under the same base path, the Files repo in
\* the object store
TypedCreateRepo(rt, name) ==
    IF rt = RPM THEN RPMCreateRepo(lfs, name)
    ELSE IF rt = DEB THEN DEBCreateRepo(lfs, name)
    ELSE FilesCreateRepo(objs, name)

TypedListRepos(rt) ==
    IF rt = RPM THEN RPMListRepos(lfs)
    ELSE IF rt = DEB THEN DEBListRepos(lfs)
    ELSE FilesListRepos(objs)

\* ghost: made holds the (type, name) pairs whose CreateRepo succeeded
RepoCall(op, rt, name, ok, out, made) ==
    [op |-> op, rt |-> rt, name |-> name, ok |-> ok, out |-> out, made |-> made]

Typed_CreateRepo ==
    /\ \E rt \in Types, n \in CreatedNames :
          LET r == TypedCreateRepo(rt, n) IN
          /\ lfs' = IF rt = Files THEN lfs ELSE r.store
          /\ objs' = IF rt = Files THEN r.store ELSE objs
          /\ st' = RepoCall("CreateRepo", rt, n, r.ok, {},
                            IF r.ok THEN st.made \cup {<<rt, n>>} ELSE st.made)
    /\ UNCHANGED <<repoTypes, repoConfigs, mu, th, hist, batch>>

Typed_ListRepos ==
    /\ \E rt \in Types :
          st' = RepoCall("ListRepos", rt, <<>>, TRUE, TypedListRepos(rt), st.made)
    /\ UNCHANGED <<lfs, objs, repoTypes, repoConfigs, mu, th, hist, batch>>

InitTyped ==
    /\ lfs = EmptyFS
    /\ objs = EmptyObjs
    /\ repoTypes = NoMap
    /\ repoConfigs = NoMap
    /\ mu = [w |-> NoThread, readers |-> {}]
    /\ th = [t \in Threads |-> Locals("done", "none", <<>>, <<>>, <<>>)]
    /\ hist = [n \in RepoNames |-> NoHist]
    /\ st = RepoCall("none", NoType, <<>>, FALSE, {}, {})
    /\ batch = NoBatch

NextTyped == Typed_CreateRepo \/ Typed_ListRepos

SpecTyped == InitTyped /\ [][NextTyped]_vars

\* the names the last ListRepos had to report
MadeOf(rt) == {n \in CreatedNames : <<rt, n>> \in st.made}

\* C35: after CreateRepo(name) succeeded on the Repo of type t (RPM, DEB or
\* Files), ListRepos of that Repo reports name.
C35_CreatedIsListed ==
    ("made" \in DOMAIN st /\ st.op = "ListRepos") => MadeOf(st.rt) \subseteq st.out

-----------------------------------------------------------------------------
(* The two backends side by side: the same calls of Store and CreateDir      *)
(* build the same tree in a LocalStorage and in a MinDBStorage, and the      *)
(* same ListWithOptions is asked of both                                     *)

\* the depth limits asked for
ListDepths == {-1, 0, 1}

PairFiles == {P_f, P_da, P_deb}

PairCalls ==
    {StorageCall("Store", p, Payload, NoOpts) : p \in PairFiles}
    \cup {StorageCall("CreateDir", p, <<>>, NoOpts) : p \in StorageDirs}
    \cup {StorageCall("ListWithOptions", p, <<>>, ListOptions(m, i, x)) :
            p \in {<<>>, P_d}, m \in ListDepths, i \in BOOLEAN, x \in {{}, {Ext_rpm}}}

\* the last call and, of a listing, what each backend returned
PairReturn(c, localFiles, minDBFiles) ==
    [op |-> c.op, path |-> c.path, opts |-> c.opts, localFiles |-> localFiles,
     minDBFiles |-> minDBFiles]

Pair_Store ==
    /\ \E c \in PairCalls :
          /\ c.op = "Store"
          /\ LocalStore(lfs, c.path, c.data).ok
          /\ lfs' = LocalStore(lfs, c.path, c.data).fs
          /\ objs' = MinDBStore(objs, c.path, c.data)
          /\ st' = PairReturn(c, {}, {})
    /\ UNCHANGED <<repoTypes, repoConfigs, mu, th, hist, batch>>

Pair_CreateDir ==
    /\ \E c \in PairCalls :
          /\ c.op = "CreateDir"
          /\ LocalCreateDir(lfs, c.path).ok
          /\ lfs' = LocalCreateDir(lfs, c.path).fs
          /\ objs' = MinDBCreateDir(objs, c.path)
          /\ st' = PairReturn(c, {}, {})
    /\ UNCHANGED <<repoTypes, repoConfigs, mu, th, hist, batch>>

Pair_ListWithOptions ==
    /\ \E c \in PairCalls :
          /\ c.op = "ListWithOptions"
          /\ st' = PairReturn(c, LocalListWithOptions(lfs, c.path, c.opts),
                                 MinDBListWithOptions(objs, c.path, c.opts))
    /\ UNCHANGED <<lfs, objs, repoTypes, repoConfigs, mu, th, hist, batch>>

InitPair ==
    /\ lfs = EmptyFS
    /\ objs = EmptyObjs
    /\ repoTypes = NoMap
    /\ repoConfigs = NoMap
    /\ mu = [w |-> NoThread, readers |-> {}]
    /\ th = [t \in Threads |-> Locals("done", "none", <<>>, <<>>, <<>>)]
    /\ hist = [n \in RepoNames |-> NoHist]
    /\ st = PairReturn(StorageCall("none", <<>>, <<>>, NoOpts), {}, {})
    /\ batch = NoBatch

NextPair == Pair_Store \/ Pair_CreateDir \/ Pair_ListWithOptions

SpecPair == InitPair /\ [][NextPair]_vars

\* the relative names and IsDir flags of a listing
Entries(files) == {<<f.Name, f.IsDir>> : f \in files}

\* C37: for the same stored tree, prefix and ListOptions the local and the
\* object-store ListWithOptions return the same entries (relative names and
\* IsDir flags).
C37_SameListing ==
    ("minDBFiles" \in DOMAIN st /\ st.op = "ListWithOptions")
        => Entries(st.localFiles) = Entries(st.minDBFiles)

\* C38: in every batch-upload response, total is the number of files
\* submitted, total = success + failed, and the results hold exactly one entry
\* per submitted file, in submission order
C38_ResponseCounts ==
    batch.pc = "responded"
        => /\ batch.Total = Len(batch.files)
           /\ batch.Total = batch.Success + batch.Failed
           /\ Len(batch.Results) = Len(batch.files)
           /\ \A k \in 1..Len(batch.files) :
                 batch.Results[k].Filename = batch.files[k]

\* a batch of three different files, with a failure and a success, was answered
C38_Witness ==
    /\ batch.pc = "responded"
    /\ Len(batch.files) = 3
    /\ Cardinality({batch.files[k] : k \in 1..3}) = 3
    /\ batch.Success > 0
    /\ batch.Failed > 0

\* C39: a batch upload never reports the overall status "success" when a file
\* of the batch failed, with or without auto_refresh
C39_SuccessMeansNoFailure ==
    batch.pc = "responded" /\ batch.Status = "success" => batch.Failed = 0

====
